---- MODULE Spec2Model ----
(***************************************************************************)
(* Model of app/services/analyze_quotes.py: the IndicatorCalculator (the   *)
(* ratio and theoretical-price columns) and the StockDataProcessor (the    *)
(* per-code batch loop, the quote/disclosure merge and the result cache),   *)
(* and of app/utils/stock_code.py (the security-code conversions).         *)
(*                                                                         *)
(* A pandas DataFrame is a record [cols, rows]: the set of column names    *)
(* and the sequence of rows, each row a function from column name to cell. *)
(* A float64 cell is an exact extended rational <<n, d>> in lowest terms:  *)
(* d > 0 is the number n/d, <<0,0>> is NaN (pandas' missing marker, also   *)
(* NaT), <<1,0>> is +inf and <<-1,0>> is -inf.  Dates are day numbers and  *)
(* security codes are small integers, both stored as <<k, 1>>.  A cell    *)
(* <<k, -1>> is text as read from a CSV file: the text of day k in a date  *)
(* column (k = 0: text that is no date), non-numeric text elsewhere.       *)
(***************************************************************************)
EXTENDS Integers, Sequences, FiniteSets, TLC

VARIABLES
    fs,              \* the files under temporary/<date>/ the processor reads
    df_fins,         \* StockDataProcessor.df_fins
    code_name_dict,  \* StockDataProcessor.code_name_dict
    target_date,     \* StockDataProcessor.target_date
    analysis_cache,  \* StockDataProcessor.analysis_cache
    pc,              \* position of the processor: idle, loop, returned, raised
    codes,           \* process_quotes: the argument codes
    idx,             \* process_quotes: the loop index i (1-based)
    results,         \* process_quotes: the list results
    failed,          \* codes whose failure was logged in the current call
    calls,           \* number of process_quotes calls made so far
    df,              \* calculator: the frame the local name df refers to
    df_obj,          \* calculator: the frame object that was passed in
    cpc,             \* calculator: the next step to run
    m_code,          \* _merge_fins_and_stock: the argument code
    df_quotes_obj,   \* _merge_fins_and_stock: the frame object passed in
    df_quotes,       \* _merge_fins_and_stock: the local name df_quotes
    df_fins_extracted, \* _merge_fins_and_stock: the local df_fins_extracted
    df_merged,       \* _merge_fins_and_stock: the local df_merged / the result
    mpc,             \* _merge_fins_and_stock: the next step to run
    input_code,      \* stock_code: the string a chain of conversions starts from
    code_arg,        \* stock_code: the argument of the latest call
    code_result,     \* stock_code: what the latest call returned, or that it raised
    code_trace       \* stock_code: the functions called so far, in order

procVars == <<fs, df_fins, code_name_dict, target_date, analysis_cache,
              pc, codes, idx, results, failed, calls>>
calcVars == <<df, df_obj, cpc>>
mergeVars == <<m_code, df_quotes_obj, df_quotes, df_fins_extracted, df_merged, mpc>>
codeVars == <<input_code, code_arg, code_result, code_trace>>
vars == <<fs, df_fins, code_name_dict, target_date, analysis_cache,
          pc, codes, idx, results, failed, calls, df, df_obj, cpc,
          m_code, df_quotes_obj, df_quotes, df_fins_extracted, df_merged, mpc,
          input_code, code_arg, code_result, code_trace>>

(***************************************************************************)
(* Security codes (app/utils/stock_code.py).  A str is the sequence of its *)
(* characters.                                                             *)
(***************************************************************************)
\* the characters of the modelled strings: white space, digits, a lower-case
\* and an upper-case letter
Alphabet == {" ", "0", "1", "a", "A"}

UpperChar(c) == IF c = "a" THEN "A" ELSE c

\* str.upper()
Upper(s) == [i \in 1..Len(s) |-> UpperChar(s[i])]

RECURSIVE StripLeft(_)
StripLeft(s) == IF s # <<>> /\ Head(s) = " " THEN StripLeft(Tail(s)) ELSE s

RECURSIVE StripRight(_)
StripRight(s) ==
    IF s # <<>> /\ s[Len(s)] = " " THEN StripRight(SubSeq(s, 1, Len(s) - 1)) ELSE s

\* str.strip(): leading and trailing white space removed
Strip(s) == StripRight(StripLeft(s))

\* a call that raised ValueError
Raised == [ok |-> FALSE, code |-> <<>>]

Returned(code) == [ok |-> TRUE, code |-> code]

\* mutant of normalize_stock_code: the input is not stripped
normalize_stock_code_NoStrip(input_code_) ==
    LET code == Upper(input_code_)
    IN IF Len(code) = 4 THEN Returned(code \o <<"0">>)
       ELSE IF Len(code) = 5 THEN Returned(code)
       ELSE Raised

normalize_stock_code(input_code_) ==
    LET code == Upper(Strip(input_code_))
    IN IF Len(code) = 4 THEN Returned(code \o <<"0">>)
       ELSE IF Len(code) = 5 THEN Returned(code)
       ELSE Raised

\* mutant of to_api_stock_code: a 5-character code always loses its last
\* character
to_api_stock_code_AlwaysDrop(input_code_) ==
    LET code == Upper(Strip(input_code_))
    IN IF Len(code) = 4 THEN Returned(code)
       ELSE IF Len(code) = 5 THEN Returned(SubSeq(code, 1, 4))
       ELSE Raised

to_api_stock_code(input_code_) ==
    LET code == Upper(Strip(input_code_))
    IN IF Len(code) = 4 THEN Returned(code)
       ELSE IF Len(code) = 5
            THEN IF code[5] = "0" THEN Returned(SubSeq(code, 1, 4))
                 ELSE Returned(code)
       ELSE Raised

\* no conversion has been called
CodeIdle ==
    /\ input_code = <<>>
    /\ code_arg = <<>>
    /\ code_result = Raised
    /\ code_trace = <<>>

(***************************************************************************)
(* float64 arithmetic and comparison                                       *)
(***************************************************************************)
Abs(n) == IF n < 0 THEN -n ELSE n

Sign(n) == IF n > 0 THEN 1 ELSE IF n < 0 THEN -1 ELSE 0

RECURSIVE Gcd(_, _)
Gcd(a, b) == IF b = 0 THEN a ELSE Gcd(b, a % b)

Norm(n, d) ==
    IF d = 0 THEN <<Sign(n), 0>>
    ELSE LET g == Gcd(Abs(n), d) IN <<n \div g, d \div g>>

NaN == <<0, 0>>

Num(k) == <<k, 1>>

Frac(n, d) == Norm(n, d)

IsNaN(a) == a = NaN

\* a / b: x/0 is +-inf, 0/0 and inf/inf are NaN, x/inf is 0
FDiv(a, b) ==
    IF IsNaN(a) \/ IsNaN(b) THEN NaN
    ELSE Norm(a[1] * b[2] * (IF b[1] < 0 THEN -1 ELSE 1), a[2] * Abs(b[1]))

\* a * b: inf * 0 is NaN
FMul(a, b) == Norm(a[1] * b[1], a[2] * b[2])

\* a + b: inf + (-inf) is NaN
FAdd(a, b) ==
    IF a[2] = 0 /\ b[2] = 0 THEN (IF a = b THEN a ELSE NaN)
    ELSE Norm(a[1] * b[2] + b[1] * a[2], a[2] * b[2])

\* a >= b, a < b, a <= b: every comparison with NaN is False
FGe(a, b) ==
    /\ ~IsNaN(a) /\ ~IsNaN(b)
    /\ IF a[2] = 0 /\ b[2] = 0 THEN a[1] >= b[1]
       ELSE a[1] * b[2] >= b[1] * a[2]

FLt(a, b) == ~IsNaN(a) /\ ~IsNaN(b) /\ ~FGe(a, b)

FLe(a, b) == FGe(b, a)

(***************************************************************************)
(* DataFrame operations                                                    *)
(***************************************************************************)
NRows(f) == Len(f.rows)

\* df[name] = values: adds or overwrites a column of the frame
SetColumn(f, name, values) ==
    [cols |-> f.cols \cup {name},
     rows |-> [i \in 1..Len(f.rows) |->
                 [c \in f.cols \cup {name} |->
                    IF c = name THEN values[i] ELSE f.rows[i][c]]]]


\* df.drop(columns=[name]): a new frame without the column
DropColumn(f, name) ==
    [cols |-> f.cols \ {name},
     rows |-> [i \in 1..Len(f.rows) |->
                 [c \in f.cols \ {name} |-> f.rows[i][c]]]]

\* np.select(conditions, choices, default) for one row: the first true
\* condition selects its choice
NpSelect(conds, choices, default) ==
    IF \E i \in 1..Len(conds) : conds[i]
    THEN choices[CHOOSE i \in 1..Len(conds) :
                    conds[i] /\ \A j \in 1..(i - 1) : ~conds[j]]
    ELSE default

\* df[col].iloc[-1]
LastOf(f, col) == f.rows[Len(f.rows)][col]

(***************************************************************************)
(* StockDataProcessor._merge_fins_and_stock                                *)
(***************************************************************************)
EmptyFrame == [cols |-> {}, rows |-> <<>>]

DateText(k) == <<k, -1>>

IsText(c) == c[2] = -1

\* pd.to_datetime on one cell: the text of a day parses to that day, a
\* missing cell is NaT, a datetime stays
ToDatetimeCell(c) == IF IsText(c) THEN Num(c[1]) ELSE c

\* pd.to_datetime raises on text that is no date
ToDatetimeRaises(f, col) ==
    \E i \in 1..Len(f.rows) : f.rows[i][col] = DateText(0)

ToDatetime(f, col) ==
    LET V(r) == ToDatetimeCell(r[col]) IN SetColumn(f, col, [i \in 1..Len(f.rows) |-> V(f.rows[i])])

\* df[df["LocalCode"] == str(code)].copy()
ExtractCode(f, code) ==
    LET Keep(r) == r["LocalCode"] = Num(code)
    IN [cols |-> f.cols, rows |-> SelectSeq(f.rows, Keep)]

\* sort order of a date key: NaT sorts last
KeyLe(a, b) == IsNaN(b) \/ (~IsNaN(a) /\ a[1] <= b[1])

IndexOrders(n) ==
    {p \in [1..n -> 1..n] : \A i \in 1..n, j \in 1..n : p[i] = p[j] => i = j}

\* df.sort_values(col): the default sort is not stable, so rows with equal
\* keys come out in any order
SortValues(f, col) ==
    {[cols |-> f.cols, rows |-> [i \in 1..Len(f.rows) |-> f.rows[p[i]]]] :
        p \in {q \in IndexOrders(Len(f.rows)) :
                 \A i \in 1..(Len(f.rows) - 1) :
                    KeyLe(f.rows[q[i]][col], f.rows[q[i + 1]][col])}}

\* merge_asof raises ValueError when a merge key is null
MergeAsofRaises(left, right) ==
    \/ \E i \in 1..Len(left.rows) : IsNaN(left.rows[i]["Date"])
    \/ \E j \in 1..Len(right.rows) : IsNaN(right.rows[j]["DisclosedDate"])

\* mutant of MergeAsof: an inner join (a quote row with no disclosure on or
\* before its date is dropped)
MergeAsofInner(left, right) ==
    LET Match(i) == {j \in 1..Len(right.rows) :
                       right.rows[j]["DisclosedDate"][1] <= left.rows[i]["Date"][1]}
        Last(S) == CHOOSE j \in S : \A k \in S : k <= j
        Row(i) == [c \in left.cols \cup right.cols |->
                     IF c \in left.cols THEN left.rows[i][c]
                     ELSE right.rows[Last(Match(i))][c]]
        Matched == {i \in 1..Len(left.rows) : Match(i) # {}}
        Nth(k) == CHOOSE i \in Matched : Cardinality({j \in Matched : j <= i}) = k
    IN [cols |-> left.cols \cup right.cols,
        rows |-> [k \in 1..Cardinality(Matched) |-> Row(Nth(k))]]

\* mutant of MergeAsof: exact matches are not allowed (a disclosure of the
\* quote's own day is skipped)
MergeAsofStrict(left, right) ==
    LET Match(i) == {j \in 1..Len(right.rows) :
                       right.rows[j]["DisclosedDate"][1] < left.rows[i]["Date"][1]}
        Last(S) == CHOOSE j \in S : \A k \in S : k <= j
    IN [cols |-> left.cols \cup right.cols,
        rows |-> [i \in 1..Len(left.rows) |->
                    [c \in left.cols \cup right.cols |->
                       IF c \in left.cols THEN left.rows[i][c]
                       ELSE IF Match(i) = {} THEN NaN
                       ELSE right.rows[Last(Match(i))][c]]]]

\* mutant of MergeAsof: direction="forward" (the first disclosure on or after
\* the quote date)
MergeAsofForward(left, right) ==
    LET Match(i) == {j \in 1..Len(right.rows) :
                       right.rows[j]["DisclosedDate"][1] >= left.rows[i]["Date"][1]}
        First(S) == CHOOSE j \in S : \A k \in S : j <= k
    IN [cols |-> left.cols \cup right.cols,
        rows |-> [i \in 1..Len(left.rows) |->
                    [c \in left.cols \cup right.cols |->
                       IF c \in left.cols THEN left.rows[i][c]
                       ELSE IF Match(i) = {} THEN NaN
                       ELSE right.rows[First(Match(i))][c]]]]

\* pd.merge_asof(left, right, left_on="Date", right_on="DisclosedDate",
\* direction="backward"): every left row, with the last right row whose key
\* is <= the left key, or with NaN in the right columns when there is none
MergeAsof(left, right) ==
    LET Match(i) == {j \in 1..Len(right.rows) :
                       right.rows[j]["DisclosedDate"][1] <= left.rows[i]["Date"][1]}
        Last(S) == CHOOSE j \in S : \A k \in S : k <= j
    IN [cols |-> left.cols \cup right.cols,
        rows |-> [i \in 1..Len(left.rows) |->
                    [c \in left.cols \cup right.cols |->
                       IF c \in left.cols THEN left.rows[i][c]
                       ELSE IF Match(i) = {} THEN NaN
                       ELSE right.rows[Last(Match(i))][c]]]]

\* df.ffill(): in every column a missing cell takes the last value above it
Ffill(f) ==
    [cols |-> f.cols,
     rows |-> [i \in 1..Len(f.rows) |->
                 [c \in f.cols |->
                    LET Above == {k \in 1..i : ~IsNaN(f.rows[k][c])}
                    IN IF Above = {} THEN NaN
                       ELSE f.rows[CHOOSE k \in Above : \A l \in Above : l <= k][c]]]]

\* df.bfill(): in every column a missing cell takes the first value below it
Bfill(f) ==
    [cols |-> f.cols,
     rows |-> [i \in 1..Len(f.rows) |->
                 [c \in f.cols |->
                    LET Below == {k \in i..Len(f.rows) : ~IsNaN(f.rows[k][c])}
                    IN IF Below = {} THEN NaN
                       ELSE f.rows[CHOOSE k \in Below : \A l \in Below : k <= l][c]]]]

\* lines 320-346 for a non-empty extract: the frames the call can return
MergeSorted(fx, q) ==
    {Bfill(Ffill(MergeAsof(sq, sf))) :
        sq \in SortValues(ToDatetime(q, "Date"), "Date"),
        sf \in SortValues(ToDatetime(fx, "DisclosedDate"), "DisclosedDate")}

MergeRaises(fx, q) ==
    \/ ToDatetimeRaises(fx, "DisclosedDate")
    \/ ToDatetimeRaises(q, "Date")
    \/ MergeAsofRaises(ToDatetime(q, "Date"), ToDatetime(fx, "DisclosedDate"))

\* _merge_fins_and_stock(code, df_quotes) on the disclosure frame fins: the
\* outcomes the call can have, each [ok, df]
_merge_fins_and_stock(fins, code, q) ==
    LET fx == ExtractCode(fins, code)
    IN IF Len(fx.rows) = 0 THEN {[ok |-> TRUE, df |-> q]}
       ELSE IF MergeRaises(fx, q) THEN {[ok |-> FALSE, df |-> EmptyFrame]}
       ELSE {[ok |-> TRUE, df |-> m] : m \in MergeSorted(fx, q)}

(***************************************************************************)
(* IndicatorCalculator                                                     *)
(***************************************************************************)
FinsValueColumns ==
    {"ForecastProfit", "Equity", "TotalAssets", "EquityToAssetRatio",
     "AverageNumberOfShares"}

\* df["AverageNumberOfShares"].iloc[-1] raises KeyError when the frame has no
\* disclosure columns and IndexError when it has no rows
IndicatorsRaise(f) ==
    \/ ~(FinsValueColumns \subseteq f.cols)
    \/ ~({"AdjustmentClose", "Volume"} \subseteq f.cols)
    \/ Len(f.rows) = 0

_set_AdjustmentBPS_value(f) ==
    LET AverageNumberOfShares == LastOf(f, "AverageNumberOfShares")
        V(r) == FDiv(r["Equity"], AverageNumberOfShares)
    IN SetColumn(f, "AdjustmentBPS", [i \in 1..Len(f.rows) |-> V(f.rows[i])])

\* mutant of _set_PER_value: the row's own share count
_set_PER_value_OwnShares(f) ==
    LET V(r) == FDiv(r["AdjustmentClose"],
                     FDiv(r["ForecastProfit"], r["AverageNumberOfShares"]))
    IN SetColumn(f, "PER", [i \in 1..Len(f.rows) |-> V(f.rows[i])])

_set_PER_value(f) ==
    LET AverageNumberOfShares == LastOf(f, "AverageNumberOfShares")
        V(r) == FDiv(r["AdjustmentClose"],
                     FDiv(r["ForecastProfit"], AverageNumberOfShares))
    IN SetColumn(f, "PER", [i \in 1..Len(f.rows) |-> V(f.rows[i])])

_set_PBR_value(f) ==
    LET AverageNumberOfShares == LastOf(f, "AverageNumberOfShares")
        V(r) == FDiv(r["AdjustmentClose"],
                     FDiv(r["Equity"], AverageNumberOfShares))
    IN SetColumn(f, "PBR", [i \in 1..Len(f.rows) |-> V(f.rows[i])])

_set_ROE_value(f) ==
    LET V(r) == FDiv(r["ForecastProfit"], r["Equity"])
    IN SetColumn(f, "ROE", [i \in 1..Len(f.rows) |-> V(f.rows[i])])

_set_ROA_value(f) ==
    LET V(r) == FDiv(r["ForecastProfit"], r["TotalAssets"])
    IN SetColumn(f, "ROA", [i \in 1..Len(f.rows) |-> V(f.rows[i])])

_set_market_cap(f) ==
    LET V(r) == FMul(r["AdjustmentClose"], r["AverageNumberOfShares"])
    IN SetColumn(f, "MarketCap", [i \in 1..Len(f.rows) |-> V(f.rows[i])])

ROA_LIMIT == Frac(3, 10)

\* mutant of _limit_ROA_value: the cap is also written back to ROA
_limit_ROA_value_InPlace(f) ==
    LET V(r) == NpSelect(<<FGe(r["ROA"], ROA_LIMIT)>>, <<ROA_LIMIT>>, r["ROA"])
        W(r) == r["ROA_Capped"]
        f1 == SetColumn(f, "ROA_Capped", [i \in 1..Len(f.rows) |-> V(f.rows[i])])
    IN SetColumn(f1, "ROA", [i \in 1..Len(f1.rows) |-> W(f1.rows[i])])

_limit_ROA_value(f) ==
    LET V(r) == NpSelect(<<FGe(r["ROA"], ROA_LIMIT)>>, <<ROA_LIMIT>>, r["ROA"])
    IN SetColumn(f, "ROA_Capped", [i \in 1..Len(f.rows) |-> V(f.rows[i])])

\* mutant of DiscountConditions: the third tier ends at 0.66, not 0.67
DiscountConditionsGap(e) ==
    << FGe(e, Frac(8, 10)),
       FGe(e, Frac(67, 100)) /\ FLt(e, Frac(8, 10)),
       FGe(e, Frac(5, 10)) /\ FLt(e, Frac(66, 100)),
       FGe(e, Frac(33, 100)) /\ FLt(e, Frac(5, 10)),
       FGe(e, Frac(1, 10)) /\ FLt(e, Frac(33, 100)),
       FLt(e, Frac(1, 10)) >>

DiscountConditions(e) ==
    << FGe(e, Frac(8, 10)),
       FGe(e, Frac(67, 100)) /\ FLt(e, Frac(8, 10)),
       FGe(e, Frac(5, 10)) /\ FLt(e, Frac(67, 100)),
       FGe(e, Frac(33, 100)) /\ FLt(e, Frac(5, 10)),
       FGe(e, Frac(1, 10)) /\ FLt(e, Frac(33, 100)),
       FLt(e, Frac(1, 10)) >>

DiscountChoices ==
    << Frac(8, 10), Frac(75, 100), Frac(7, 10), Frac(65, 100), Frac(6, 10),
       Frac(5, 10) >>

_set_discount_rate(f) ==
    LET V(r) == NpSelect(DiscountConditions(r["EquityToAssetRatio"]),
                         DiscountChoices, NaN)
    IN SetColumn(f, "DiscountRate", [i \in 1..Len(f.rows) |-> V(f.rows[i])])

\* mutant of LeverageConditions: the upper clamp starts at 1.33
LeverageConditionsLate(t) == << FLe(t, Frac(66, 100)), FGe(t, Frac(133, 100)) >>

LeverageConditions(t) == << FLe(t, Frac(66, 100)), FGe(t, Num(1)) >>

LeverageChoices == << Frac(66, 100), Num(1) >>

\* lines 118-127: the argument frame as the call leaves it, TempValue included
LeverageInPlace(f) ==
    LET T0(r) == FAdd(r["EquityToAssetRatio"], Frac(33, 100))
        f1 == SetColumn(f, "TempValue", [i \in 1..Len(f.rows) |-> T0(f.rows[i])])
        T1(r) == NpSelect(LeverageConditions(r["TempValue"]), LeverageChoices,
                          r["TempValue"])
        f2 == SetColumn(f1, "TempValue", [i \in 1..Len(f1.rows) |-> T1(f1.rows[i])])
        V(r) == FDiv(Num(1), r["TempValue"])
    IN SetColumn(f2, "FinancialLeverageAdjustment", [i \in 1..Len(f2.rows) |-> V(f2.rows[i])])

\* the frame the call returns: df.drop(columns=["TempValue"]), a new object
_set_financial_leverage_adjustment(f) ==
    DropColumn(LeverageInPlace(f), "TempValue")

\* mutant of RiskConditions: every tier runs up to the next one (no gaps)
RiskConditionsNoGaps(p) ==
    << FGe(p, Frac(5, 10)),
       FGe(p, Frac(41, 100)) /\ FLt(p, Frac(50, 100)),
       FGe(p, Frac(34, 100)) /\ FLt(p, Frac(41, 100)),
       FGe(p, Frac(25, 100)) /\ FLt(p, Frac(34, 100)),
       FGe(p, Frac(21, 100)) /\ FLt(p, Frac(25, 100)),
       FGe(p, Frac(4, 100)) /\ FLt(p, Frac(21, 100)),
       FLt(p, Frac(4, 100)) >>

\* mutant of RiskConditions: the second tier ends at 0.45, not 0.49
RiskConditionsShortTier(p) ==
    << FGe(p, Frac(5, 10)),
       FGe(p, Frac(41, 100)) /\ FLt(p, Frac(45, 100)),
       FGe(p, Frac(34, 100)) /\ FLt(p, Frac(40, 100)),
       FGe(p, Frac(25, 100)) /\ FLt(p, Frac(33, 100)),
       FGe(p, Frac(21, 100)) /\ FLt(p, Frac(25, 100)),
       FGe(p, Frac(4, 100)) /\ FLt(p, Frac(20, 100)),
       FLt(p, Frac(4, 100)) >>

RiskConditions(p) ==
    << FGe(p, Frac(5, 10)),
       FGe(p, Frac(41, 100)) /\ FLt(p, Frac(49, 100)),
       FGe(p, Frac(34, 100)) /\ FLt(p, Frac(40, 100)),
       FGe(p, Frac(25, 100)) /\ FLt(p, Frac(33, 100)),
       FGe(p, Frac(21, 100)) /\ FLt(p, Frac(25, 100)),
       FGe(p, Frac(4, 100)) /\ FLt(p, Frac(20, 100)),
       FLt(p, Frac(4, 100)) >>

RiskChoices ==
    << Num(1), Frac(8, 10), Frac(66, 100), Frac(50, 100), Frac(33, 100),
       Frac(15, 100), Frac(2, 100) >>

_set_risk_assessment_rate(f) ==
    LET V(r) == NpSelect(RiskConditions(r["PBR"]), RiskChoices, NaN)
    IN SetColumn(f, "RiskAssessmentRate", [i \in 1..Len(f.rows) |-> V(f.rows[i])])

_set_asset_value(f) ==
    LET V(r) == FMul(r["AdjustmentBPS"], r["DiscountRate"])
    IN SetColumn(f, "AssetValue", [i \in 1..Len(f.rows) |-> V(f.rows[i])])

BusinessValueFactor == 150

_set_business_value(f) ==
    LET AverageNumberOfShares == LastOf(f, "AverageNumberOfShares")
        V(r) == FMul(FMul(FMul(FDiv(r["ForecastProfit"], AverageNumberOfShares),
                               r["ROA"]),
                          Num(BusinessValueFactor)),
                     r["FinancialLeverageAdjustment"])
    IN SetColumn(f, "BusinessValue", [i \in 1..Len(f.rows) |-> V(f.rows[i])])

\* mutant of _set_theoretical_stock_price: the upper limit is taken from the
\* sum before the risk assessment rate is applied
_set_theoretical_stock_price_Unscaled(f) ==
    LET P(r) == FMul(FAdd(r["BusinessValue"], r["AssetValue"]),
                     r["RiskAssessmentRate"])
        f1 == SetColumn(f, "TheoreticalStockPrice", [i \in 1..Len(f.rows) |-> P(f.rows[i])])
        U(r) == FMul(FAdd(r["BusinessValue"], r["AssetValue"]), Num(2))
    IN SetColumn(f1, "TheoreticalStockPriceUpperLimit", [i \in 1..Len(f1.rows) |-> U(f1.rows[i])])

_set_theoretical_stock_price(f) ==
    LET P(r) == FMul(FAdd(r["BusinessValue"], r["AssetValue"]),
                     r["RiskAssessmentRate"])
        f1 == SetColumn(f, "TheoreticalStockPrice", [i \in 1..Len(f.rows) |-> P(f.rows[i])])
        U(r) == FMul(r["TheoreticalStockPrice"], Num(2))
    IN SetColumn(f1, "TheoreticalStockPriceUpperLimit", [i \in 1..Len(f1.rows) |-> U(f1.rows[i])])

\* rolling(window).mean(): min_periods defaults to the window, so a row with
\* fewer than window rows up to it, or with a NaN in its window, is NaN
RECURSIVE SumCol(_, _, _, _)
SumCol(rows, col, lo, hi) ==
    IF lo > hi THEN Num(0)
    ELSE IF lo = hi THEN rows[lo][col]
    ELSE FAdd(SumCol(rows, col, lo, (lo + hi) \div 2),
              SumCol(rows, col, (lo + hi) \div 2 + 1, hi))

\* mutant of RollingMean: min_periods=1 (the mean of the rows there are)
RollingMeanMinPeriods1(f, col, window, i) ==
    LET lo == IF i < window THEN 1 ELSE i - window + 1
    IN IF \E k \in lo..i : IsNaN(f.rows[k][col]) THEN NaN
       ELSE FDiv(SumCol(f.rows, col, lo, i), Num(i - lo + 1))

RollingMean(f, col, window, i) ==
    IF i < window THEN NaN
    ELSE IF \E k \in (i - window + 1)..i : IsNaN(f.rows[k][col]) THEN NaN
    ELSE FDiv(SumCol(f.rows, col, i - window + 1, i), Num(window))

SMA_WINDOW == 200

VOLUME_WINDOW == 20

WithRolling(f, name, col, window) ==
    [cols |-> f.cols \cup {name},
     rows |-> [i \in 1..Len(f.rows) |->
                 [c \in f.cols \cup {name} |->
                    IF c = name THEN RollingMean(f, col, window, i)
                    ELSE f.rows[i][c]]]]

_set_200days_moving_average(f) ==
    WithRolling(f, "SMA_200", "AdjustmentClose", SMA_WINDOW)

_set_smoothed_volume(f) ==
    WithRolling(f, "Smoothed_volume", "Volume", VOLUME_WINDOW)

calculate_all_indicators(f) ==
    _set_200days_moving_average(
      _set_smoothed_volume(
        _set_market_cap(
          _set_ROA_value(
            _set_ROE_value(
              _set_PBR_value(
                _set_PER_value(
                  _set_AdjustmentBPS_value(f))))))))

\* the steps of calculate_theoretical_price that still write to the frame
\* object passed in
TheoreticalInPlace(f) ==
    LeverageInPlace(
      _set_risk_assessment_rate(
        _limit_ROA_value(
          _set_discount_rate(f))))

calculate_theoretical_price(f) ==
    _set_theoretical_stock_price(
      _set_business_value(
        _set_asset_value(
          DropColumn(TheoreticalInPlace(f), "TempValue"))))

(***************************************************************************)
(* The calculator on one frame: _analyze_single_stock lines 248-251 call   *)
(* calculate_all_indicators and then calculate_theoretical_price on the    *)
(* merged frame.  Each _set_* method is one step.  Until the leverage step *)
(* drops TempValue every step assigns columns on the frame object that was *)
(* passed in (df and df_obj are the same object); the drop makes df a new  *)
(* object and df_obj keeps what had been written to it.                    *)
(***************************************************************************)
MaxClose == 60

MaxPct == 100

MergedRow(date, close, vol, fp, eq, ta, ear, sh) ==
    [Date |-> Num(date), Code |-> Num(1), AdjustmentClose |-> close,
     Volume |-> vol, DisclosedDate |-> Num(1), LocalCode |-> Num(1),
     ForecastProfit |-> fp, Equity |-> eq, TotalAssets |-> ta,
     EquityToAssetRatio |-> ear, AverageNumberOfShares |-> sh]

MergedColumns ==
    {"Date", "Code", "AdjustmentClose", "Volume", "DisclosedDate", "LocalCode",
     "ForecastProfit", "Equity", "TotalAssets", "EquityToAssetRatio",
     "AverageNumberOfShares"}

CloseValues == {Num(k) : k \in 0..MaxClose} \cup {NaN}

RatioValues ==
    {Frac(k, 100) : k \in 0..MaxPct} \cup {NaN, Frac(-5, 100), Frac(3, 2)}

ProfitValues == {Num(k) : k \in {-10, 0, 20, 29, 30, 31, 40, 50}} \cup {NaN}

\* the rows before the last one: each family sweeps one input through its
\* whole range and the last family crosses a few values of every input
SweepRows ==
    {MergedRow(1, c, Num(10), Num(20), e, Num(100), Frac(1, 2), Num(1)) :
        c \in CloseValues, e \in {Num(100), Num(-100)}}
    \cup
    {MergedRow(1, Num(45), Num(10), p, Num(100), Num(100), r, Num(1)) :
        r \in RatioValues, p \in {Num(20), Num(40)}}
    \cup
    {MergedRow(1, Num(45), Num(10), p, Num(100), t, r, Num(1)) :
        p \in ProfitValues, t \in {Num(100), Num(80), Num(0), NaN},
        r \in {Frac(1, 5), Frac(9, 10)}}
    \cup
    {MergedRow(1, c, Num(10), p, e, t, r, s) :
        c \in {Num(3), Num(30), Num(45), NaN}, p \in {Num(20), Num(40), NaN},
        e \in {Num(100), Num(0), NaN}, t \in {Num(100), Num(0)},
        r \in {Frac(1, 20), Frac(3, 4), NaN}, s \in {Num(1), Num(4)}}

LastRows ==
    {MergedRow(2, Num(45), Num(10), Num(20), Num(100), Num(100), Frac(1, 2), s) :
        s \in {Num(1), Num(2), Num(0), NaN}}

\* rows of the three-row frames
MiddleRows ==
    {MergedRow(1, c, Num(10), p, Num(100), Num(100), r, Num(1)) :
        c \in {Num(45), Num(20)}, p \in {Num(20), Num(40), Num(-10), NaN},
        r \in {Frac(1, 5), Frac(1, 2), Frac(9, 10)}}

\* series longer than the 200-day window: the close runs through 40, 41, 42
\* and is missing on the row gap (0: on no row)
LongLen == 201

LongFrames ==
    {[cols |-> MergedColumns,
      rows |-> [i \in 1..LongLen |->
                  MergedRow(i, IF i = gap THEN NaN ELSE Num(40 + (i % 3)),
                            Num(10 + (i % 2)), Num(20), Num(100), Num(100),
                            Frac(1, 2), Num(1))]] : gap \in {0, 1, 150}}

CalcFrames ==
    LongFrames \cup
    {[cols |-> MergedColumns, rows |-> <<r, l>>] : r \in SweepRows, l \in LastRows}
    \cup {[cols |-> MergedColumns, rows |-> <<a, b, l>>] :
             a \in MiddleRows, b \in MiddleRows, l \in LastRows}
    \cup {[cols |-> MergedColumns, rows |-> <<l>>] : l \in LastRows}
    \cup {[cols |-> MergedColumns, rows |-> <<>>]}
    \cup {[cols |-> {"Date", "Code", "AdjustmentClose", "Volume"},
           rows |-> <<[Date |-> Num(1), Code |-> Num(1),
                       AdjustmentClose |-> Num(45), Volume |-> Num(10)]>>]}

Step_AdjustmentBPS ==
    /\ cpc = "_set_AdjustmentBPS_value"
    /\ IF IndicatorsRaise(df)
       THEN cpc' = "raised" /\ UNCHANGED <<df, df_obj>>
       ELSE /\ df' = _set_AdjustmentBPS_value(df)
            /\ df_obj' = _set_AdjustmentBPS_value(df)
            /\ cpc' = "_set_PER_value"
    /\ UNCHANGED <<procVars, codeVars, mergeVars>>

Step_PER ==
    /\ cpc = "_set_PER_value"
    /\ df' = _set_PER_value(df)
    /\ df_obj' = _set_PER_value(df)
    /\ cpc' = "_set_PBR_value"
    /\ UNCHANGED <<procVars, codeVars, mergeVars>>

Step_PBR ==
    /\ cpc = "_set_PBR_value"
    /\ df' = _set_PBR_value(df)
    /\ df_obj' = _set_PBR_value(df)
    /\ cpc' = "_set_ROE_value"
    /\ UNCHANGED <<procVars, codeVars, mergeVars>>

Step_ROE ==
    /\ cpc = "_set_ROE_value"
    /\ df' = _set_ROE_value(df)
    /\ df_obj' = _set_ROE_value(df)
    /\ cpc' = "_set_ROA_value"
    /\ UNCHANGED <<procVars, codeVars, mergeVars>>

Step_ROA ==
    /\ cpc = "_set_ROA_value"
    /\ df' = _set_ROA_value(df)
    /\ df_obj' = _set_ROA_value(df)
    /\ cpc' = "_set_market_cap"
    /\ UNCHANGED <<procVars, codeVars, mergeVars>>

Step_market_cap ==
    /\ cpc = "_set_market_cap"
    /\ df' = _set_market_cap(df)
    /\ df_obj' = _set_market_cap(df)
    /\ cpc' = "_set_smoothed_volume"
    /\ UNCHANGED <<procVars, codeVars, mergeVars>>

Step_smoothed_volume ==
    /\ cpc = "_set_smoothed_volume"
    /\ df' = _set_smoothed_volume(df)
    /\ df_obj' = _set_smoothed_volume(df)
    /\ cpc' = "_set_200days_moving_average"
    /\ UNCHANGED <<procVars, codeVars, mergeVars>>

Step_200days_moving_average ==
    /\ cpc = "_set_200days_moving_average"
    /\ df' = _set_200days_moving_average(df)
    /\ df_obj' = _set_200days_moving_average(df)
    /\ cpc' = "_set_discount_rate"
    /\ UNCHANGED <<procVars, codeVars, mergeVars>>

Step_discount_rate ==
    /\ cpc = "_set_discount_rate"
    /\ df' = _set_discount_rate(df)
    /\ df_obj' = _set_discount_rate(df)
    /\ cpc' = "_limit_ROA_value"
    /\ UNCHANGED <<procVars, codeVars, mergeVars>>

Step_limit_ROA ==
    /\ cpc = "_limit_ROA_value"
    /\ df' = _limit_ROA_value(df)
    /\ df_obj' = _limit_ROA_value(df)
    /\ cpc' = "_set_risk_assessment_rate"
    /\ UNCHANGED <<procVars, codeVars, mergeVars>>

Step_risk_assessment_rate ==
    /\ cpc = "_set_risk_assessment_rate"
    /\ df' = _set_risk_assessment_rate(df)
    /\ df_obj' = _set_risk_assessment_rate(df)
    /\ cpc' = "_set_financial_leverage_adjustment"
    /\ UNCHANGED <<procVars, codeVars, mergeVars>>

Step_financial_leverage_adjustment ==
    /\ cpc = "_set_financial_leverage_adjustment"
    /\ df_obj' = LeverageInPlace(df)
    /\ df' = _set_financial_leverage_adjustment(df)
    /\ cpc' = "_set_asset_value"
    /\ UNCHANGED <<procVars, codeVars, mergeVars>>

Step_asset_value ==
    /\ cpc = "_set_asset_value"
    /\ df' = _set_asset_value(df)
    /\ cpc' = "_set_business_value"
    /\ UNCHANGED <<df_obj, procVars, codeVars, mergeVars>>

Step_business_value ==
    /\ cpc = "_set_business_value"
    /\ df' = _set_business_value(df)
    /\ cpc' = "_set_theoretical_stock_price"
    /\ UNCHANGED <<df_obj, procVars, codeVars, mergeVars>>

Step_theoretical_stock_price ==
    /\ cpc = "_set_theoretical_stock_price"
    /\ df' = _set_theoretical_stock_price(df)
    /\ cpc' = "done"
    /\ UNCHANGED <<df_obj, procVars, codeVars, mergeVars>>

CalcNext ==
    \/ Step_AdjustmentBPS
    \/ Step_PER
    \/ Step_PBR
    \/ Step_ROE
    \/ Step_ROA
    \/ Step_market_cap
    \/ Step_smoothed_volume
    \/ Step_200days_moving_average
    \/ Step_discount_rate
    \/ Step_limit_ROA
    \/ Step_risk_assessment_rate
    \/ Step_financial_leverage_adjustment
    \/ Step_asset_value
    \/ Step_business_value
    \/ Step_theoretical_stock_price

\* the processor as __init__ leaves it (lines 187-195), with nothing on disk
Constructed ==
    /\ df_fins = <<>>
    /\ code_name_dict = <<>>
    /\ target_date = 0
    /\ analysis_cache = <<>>
    /\ pc = "idle"
    /\ codes = <<>>
    /\ idx = 0
    /\ results = <<>>
    /\ failed = <<>>
    /\ calls = 0

\* no merge in progress
MergeIdle ==
    /\ m_code = 0
    /\ df_quotes_obj = EmptyFrame
    /\ df_quotes = EmptyFrame
    /\ df_fins_extracted = EmptyFrame
    /\ df_merged = EmptyFrame
    /\ mpc = "idle"

CalcInit ==
    /\ df \in CalcFrames
    /\ df_obj = df
    /\ cpc = "_set_AdjustmentBPS_value"
    /\ fs = <<>>
    /\ Constructed
    /\ MergeIdle
    /\ CodeIdle

CalcSpec == CalcInit /\ [][CalcNext]_vars

(***************************************************************************)
(* Properties of the calculator (checked under CalcSpec)                   *)
(***************************************************************************)
\* a >= n/d and a < n/d for a cell a and integers n, d > 0, by cross
\* multiplication; both are false of NaN
GeQ(a, n, d) == a = <<1, 0>> \/ (a[2] > 0 /\ a[1] * d >= n * a[2])

LtQ(a, n, d) == a = <<-1, 0>> \/ (a[2] > 0 /\ a[1] * d < n * a[2])

LeQ(a, n, d) == a = <<-1, 0>> \/ (a[2] > 0 /\ a[1] * d <= n * a[2])

InTier(a, lo, hi) == GeQ(a, lo, 100) /\ LtQ(a, hi, 100)

RowsOf(f) == {f.rows[i] : i \in 1..Len(f.rows)}

\* C4: every row's AdjustmentBPS, PER, PBR and BusinessValue are computed with
\* the AverageNumberOfShares of the last row of the series, never the row's
\* own; rows with equal price, profit and equity get equal PER and PBR even
\* when their own share counts differ.
C4_SplitSmoothing ==
    "BusinessValue" \in df.cols =>
      LET latest == df.rows[Len(df.rows)]["AverageNumberOfShares"] IN
      /\ \A r \in RowsOf(df) :
           /\ r["AdjustmentBPS"] = FDiv(r["Equity"], latest)
           /\ r["PER"] = FDiv(r["AdjustmentClose"], FDiv(r["ForecastProfit"], latest))
           /\ r["PBR"] = FDiv(r["AdjustmentClose"], FDiv(r["Equity"], latest))
           /\ \E roa \in {r["ROA"], r["ROA_Capped"]} :
                r["BusinessValue"] =
                  FMul(FMul(FMul(FDiv(r["ForecastProfit"], latest), roa), Num(150)),
                       r["FinancialLeverageAdjustment"])
      /\ \A r1 \in RowsOf(df), r2 \in RowsOf(df) :
           (/\ r1["AdjustmentClose"] = r2["AdjustmentClose"]
            /\ r1["ForecastProfit"] = r2["ForecastProfit"]
            /\ r1["Equity"] = r2["Equity"])
           => r1["PER"] = r2["PER"] /\ r1["PBR"] = r2["PBR"]

\* C4 witness: the share count doubles between the two rows, price, profit and
\* equity are equal, and both rows get PER 45 / (20 / 2) = 9/2, not the 9/4
\* the first row's own share count would give.
C4_Witness ==
    /\ cpc = "done"
    /\ Len(df.rows) = 2
    /\ df.rows[1]["AverageNumberOfShares"] = Num(1)
    /\ df.rows[2]["AverageNumberOfShares"] = Num(2)
    /\ df.rows[1]["AdjustmentClose"] = Num(45)
    /\ df.rows[2]["AdjustmentClose"] = Num(45)
    /\ df.rows[1]["ForecastProfit"] = Num(20)
    /\ df.rows[1]["Equity"] = Num(100)
    /\ df.rows[1]["PER"] = Frac(9, 2)
    /\ df.rows[2]["PER"] = Frac(9, 2)
    /\ df.rows[1]["PBR"] = Frac(9, 10)

\* C5 (as claimed): BusinessValue = (ForecastProfit / latest share count) *
\* ROA_Capped * 150 * FinancialLeverageAdjustment on every row.
C5_BusinessValueUsesCappedROA ==
    "BusinessValue" \in df.cols =>
      LET latest == df.rows[Len(df.rows)]["AverageNumberOfShares"] IN
      \A r \in RowsOf(df) :
         r["BusinessValue"] =
           FMul(FMul(FMul(FDiv(r["ForecastProfit"], latest), r["ROA_Capped"]),
                     Num(150)),
                r["FinancialLeverageAdjustment"])

\* C6: TheoreticalStockPrice = (BusinessValue + AssetValue) * RiskAssessmentRate
\* with AssetValue = AdjustmentBPS * DiscountRate, the upper limit is twice the
\* price, and a row with an undefined operand has both outputs undefined.
C6_TheoreticalPrice ==
    "TheoreticalStockPriceUpperLimit" \in df.cols =>
      \A r \in RowsOf(df) :
         /\ r["AssetValue"] = FMul(r["AdjustmentBPS"], r["DiscountRate"])
         /\ r["TheoreticalStockPrice"] =
              FMul(FAdd(r["BusinessValue"], r["AssetValue"]), r["RiskAssessmentRate"])
         /\ r["TheoreticalStockPriceUpperLimit"] =
              FAdd(r["TheoreticalStockPrice"], r["TheoreticalStockPrice"])
         /\ (\E c \in {"BusinessValue", "AssetValue", "AdjustmentBPS",
                       "DiscountRate", "RiskAssessmentRate"} : IsNaN(r[c]))
            => /\ IsNaN(r["TheoreticalStockPrice"])
               /\ IsNaN(r["TheoreticalStockPriceUpperLimit"])

\* C6 witness: the first row's PBR 0.40 lies in a gap of the risk tiers, so its
\* price and limit are undefined, while the last row has a price of
\* (20 * 0.2 * 150 / 0.83 + 100 * 0.7) * 0.8 and twice that as its limit.
C6_Witness ==
    /\ cpc = "done"
    /\ Len(df.rows) = 2
    /\ df.rows[1]["PBR"] = Frac(2, 5)
    /\ IsNaN(df.rows[1]["RiskAssessmentRate"])
    /\ IsNaN(df.rows[1]["TheoreticalStockPrice"])
    /\ IsNaN(df.rows[1]["TheoreticalStockPriceUpperLimit"])
    /\ df.rows[2]["BusinessValue"] = Frac(60000, 83)
    /\ df.rows[2]["AssetValue"] = Num(70)
    /\ df.rows[2]["TheoreticalStockPrice"] = Frac(52648, 83)
    /\ df.rows[2]["TheoreticalStockPriceUpperLimit"] = Frac(105296, 83)

\* C7: RiskAssessmentRate is 1.00 for PBR >= 0.50, 0.80 on [0.41,0.49), 0.66 on
\* [0.34,0.40), 0.50 on [0.25,0.33), 0.33 on [0.21,0.25), 0.15 on [0.04,0.20),
\* 0.02 below 0.04, and NaN in the gaps [0.20,0.21), [0.33,0.34), [0.40,0.41),
\* [0.49,0.50) and for a missing PBR; no two tiers hold of the same PBR.
C7_RiskTiers ==
    "RiskAssessmentRate" \in df.cols =>
      \A r \in RowsOf(df) :
         LET p == r["PBR"]
             q == r["RiskAssessmentRate"]
         IN /\ GeQ(p, 50, 100) => q = Num(1)
            /\ InTier(p, 41, 49) => q = Frac(80, 100)
            /\ InTier(p, 34, 40) => q = Frac(66, 100)
            /\ InTier(p, 25, 33) => q = Frac(50, 100)
            /\ InTier(p, 21, 25) => q = Frac(33, 100)
            /\ InTier(p, 4, 20) => q = Frac(15, 100)
            /\ LtQ(p, 4, 100) => q = Frac(2, 100)
            /\ (\/ InTier(p, 20, 21) \/ InTier(p, 33, 34) \/ InTier(p, 40, 41)
                \/ InTier(p, 49, 50) \/ IsNaN(p)) => IsNaN(q)
            /\ Cardinality({i \in 1..7 : RiskConditions(p)[i]}) <= 1

\* C7 witness: PBR 0.40 (a gap) has no rate and PBR 0.45 has rate 0.80.
C7_Witness ==
    /\ cpc = "done"
    /\ Len(df.rows) = 2
    /\ df.rows[1]["PBR"] = Frac(40, 100)
    /\ IsNaN(df.rows[1]["RiskAssessmentRate"])
    /\ df.rows[2]["PBR"] = Frac(45, 100)
    /\ df.rows[2]["RiskAssessmentRate"] = Frac(80, 100)

\* C8: for a non-missing EquityToAssetRatio exactly one discount tier applies
\* and DiscountRate is 0.80 for >= 0.80, 0.75 on [0.67,0.80), 0.70 on
\* [0.50,0.67), 0.65 on [0.33,0.50), 0.60 on [0.10,0.33), 0.50 below 0.10;
\* DiscountRate is NaN exactly when EquityToAssetRatio is missing.
C8_DiscountTiers ==
    "DiscountRate" \in df.cols =>
      \A r \in RowsOf(df) :
         LET e == r["EquityToAssetRatio"]
             q == r["DiscountRate"]
         IN /\ GeQ(e, 80, 100) => q = Frac(80, 100)
            /\ InTier(e, 67, 80) => q = Frac(75, 100)
            /\ InTier(e, 50, 67) => q = Frac(70, 100)
            /\ InTier(e, 33, 50) => q = Frac(65, 100)
            /\ InTier(e, 10, 33) => q = Frac(60, 100)
            /\ LtQ(e, 10, 100) => q = Frac(50, 100)
            /\ ~IsNaN(e) =>
                 Cardinality({i \in 1..6 : DiscountConditions(e)[i]}) = 1
            /\ IsNaN(q) <=> IsNaN(e)

\* C8 witness: ratios 0.20, 0.90 and 0.50 get rates 0.60, 0.80 and 0.70.
C8_Witness ==
    /\ cpc = "done"
    /\ Len(df.rows) = 3
    /\ df.rows[1]["EquityToAssetRatio"] = Frac(20, 100)
    /\ df.rows[1]["DiscountRate"] = Frac(60, 100)
    /\ df.rows[2]["EquityToAssetRatio"] = Frac(90, 100)
    /\ df.rows[2]["DiscountRate"] = Frac(80, 100)
    /\ df.rows[3]["EquityToAssetRatio"] = Frac(50, 100)
    /\ df.rows[3]["DiscountRate"] = Frac(70, 100)

\* the clamp of C9: t replaced by 0.66 when t <= 0.66, by 1 when t >= 1
Clamped(t) ==
    IF LeQ(t, 66, 100) THEN Frac(66, 100) ELSE IF GeQ(t, 1, 1) THEN Num(1) ELSE t

\* C9: on every row with a non-missing EquityToAssetRatio,
\* FinancialLeverageAdjustment = 1 / clamp(EquityToAssetRatio + 0.33) and lies
\* in [1, 1/0.66]; the scratch column holds the clamped t.
C9_LeverageClamp ==
    "FinancialLeverageAdjustment" \in df.cols =>
      \A i \in 1..Len(df.rows) :
         LET e == df.rows[i]["EquityToAssetRatio"]
             a == df.rows[i]["FinancialLeverageAdjustment"]
             t == Clamped(FAdd(e, Frac(33, 100)))
         IN ~IsNaN(e) =>
              /\ FMul(a, t) = Num(1)
              /\ GeQ(a, 1, 1)
              /\ LeQ(a, 100, 66)
              /\ df_obj.rows[i]["TempValue"] = t

\* C9 witness: ratio 0.20 is clamped up to t = 0.66, ratio 0.90 is clamped
\* down to t = 1 and ratio 0.50 passes through as t = 0.83.
C9_Witness ==
    /\ cpc = "done"
    /\ Len(df.rows) = 3
    /\ df.rows[1]["EquityToAssetRatio"] = Frac(20, 100)
    /\ df.rows[1]["FinancialLeverageAdjustment"] = Frac(100, 66)
    /\ df.rows[2]["EquityToAssetRatio"] = Frac(90, 100)
    /\ df.rows[2]["FinancialLeverageAdjustment"] = Num(1)
    /\ df.rows[3]["EquityToAssetRatio"] = Frac(50, 100)
    /\ df.rows[3]["FinancialLeverageAdjustment"] = Frac(100, 83)

C10_Capped ==
    "ROA_Capped" \in df.cols =>
      \A r \in RowsOf(df) :
         /\ GeQ(r["ROA"], 30, 100) => r["ROA_Capped"] = Frac(30, 100)
         /\ ~GeQ(r["ROA"], 30, 100) => r["ROA_Capped"] = r["ROA"]

C10_StepKeepsROA ==
    cpc = "_limit_ROA_value" =>
      /\ Len(df'.rows) = Len(df.rows)
      /\ \A i \in 1..Len(df.rows) : df'.rows[i]["ROA"] = df.rows[i]["ROA"]

\* C10: ROA_Capped is 0.30 when ROA >= 0.30 and is ROA itself otherwise
\* (negative and missing ROA included), and the capping step leaves the ROA
\* column as it was.
C10_ROACap == [](C10_Capped) /\ [][C10_StepKeepsROA]_vars

\* C10 witness: ROA 0.40 is capped to 0.30, a missing ROA stays missing and
\* ROA 0.20 is kept.
C10_Witness ==
    /\ cpc = "done"
    /\ Len(df.rows) = 3
    /\ df.rows[1]["ROA"] = Frac(40, 100)
    /\ df.rows[1]["ROA_Capped"] = Frac(30, 100)
    /\ IsNaN(df.rows[2]["ROA"])
    /\ IsNaN(df.rows[2]["ROA_Capped"])
    /\ df.rows[3]["ROA"] = Frac(20, 100)
    /\ df.rows[3]["ROA_Capped"] = Frac(20, 100)

(***************************************************************************)
(* _merge_fins_and_stock on one quote frame, statement by statement.       *)
(* df_fins is the processor's shared disclosure frame as load_fins_data    *)
(* left it; df_quotes_obj is the frame object the caller passed in and     *)
(* df_quotes what the local name refers to (the same object until line 329 *)
(* rebinds the name to the sorted copy).                                   *)
(***************************************************************************)
MaxDay == 3

MaxQuotes == 3

MaxDisclosures == 2

QuoteColumns == {"Date", "Code", "AdjustmentClose", "Volume"}

FinsColumns == {"DisclosedDate", "LocalCode"} \cup FinsValueColumns

QuoteRow(date, code, close, vol) ==
    [Date |-> date, Code |-> Num(code), AdjustmentClose |-> close, Volume |-> vol]

FinsRow(date, code, fp, eq, ta, ear, sh) ==
    [DisclosedDate |-> date, LocalCode |-> Num(code), ForecastProfit |-> fp,
     Equity |-> eq, TotalAssets |-> ta, EquityToAssetRatio |-> ear,
     AverageNumberOfShares |-> sh]

SeqsUpTo(S, n) == UNION {[1..k -> S] : k \in 0..n}

\* quote rows of code 1: a price of 40 + day, or no price
GoodQuoteRows ==
    UNION {{QuoteRow(DateText(d), 1, Num(40 + d), Num(10)),
            QuoteRow(DateText(d), 1, NaN, Num(10))} : d \in 1..MaxDay}

\* a row with an empty Date cell and one whose Date is no date
BadQuoteRows ==
    {QuoteRow(NaN, 1, Num(45), Num(10)), QuoteRow(DateText(0), 1, Num(45), Num(10))}

\* quote rows of another security, code 2
MismatchedQuoteRows ==
    {QuoteRow(DateText(d), 2, Num(40 + d), Num(10)) : d \in 1..MaxDay}

QuoteFrames ==
    {[cols |-> QuoteColumns, rows |-> <<a, b>>] :
        a \in MismatchedQuoteRows, b \in MismatchedQuoteRows}
    \cup
    {[cols |-> QuoteColumns, rows |-> q] : q \in SeqsUpTo(GoodQuoteRows, MaxQuotes)}
    \cup {[cols |-> QuoteColumns, rows |-> q \o <<b>>] :
             q \in SeqsUpTo(GoodQuoteRows, 1), b \in BadQuoteRows}

\* disclosures of code 1: the forecast profit is 10 * day, or missing; the
\* share count is the day
Code1Disclosures ==
    UNION {{FinsRow(DateText(d), 1, Num(10 * d), Num(100), Num(100), Frac(1, 2), Num(d)),
            FinsRow(DateText(d), 1, NaN, Num(100), Num(100), Frac(1, 2), Num(d))} :
           d \in 1..MaxDay}

OtherDisclosure ==
    FinsRow(DateText(1), 2, Num(70), Num(700), Num(700), Frac(1, 2), Num(7))

FinsFrames ==
    {[cols |-> FinsColumns, rows |-> t] :
        t \in SeqsUpTo(Code1Disclosures, MaxDisclosures)}
    \cup {[cols |-> FinsColumns, rows |-> <<OtherDisclosure>> \o t] :
             t \in SeqsUpTo(Code1Disclosures, MaxDisclosures)}

\* line 312-317: extract the code's disclosures; none: return the quotes
Merge_extract ==
    /\ mpc = "extract"
    /\ df_fins_extracted' = ExtractCode(df_fins[1], m_code)
    /\ IF Len(ExtractCode(df_fins[1], m_code).rows) = 0
       THEN df_merged' = df_quotes /\ mpc' = "returned"
       ELSE df_merged' = df_merged /\ mpc' = "to_datetime"
    /\ UNCHANGED <<df_quotes, df_quotes_obj, procVars, codeVars, calcVars, m_code>>

\* lines 320-323: the Date column is assigned on the caller's frame object
Merge_to_datetime ==
    /\ mpc = "to_datetime"
    /\ IF ToDatetimeRaises(df_fins_extracted, "DisclosedDate")
          \/ ToDatetimeRaises(df_quotes, "Date")
       THEN mpc' = "raised"
            /\ df_fins_extracted' =
                 (IF ToDatetimeRaises(df_fins_extracted, "DisclosedDate")
                  THEN df_fins_extracted
                  ELSE ToDatetime(df_fins_extracted, "DisclosedDate"))
            /\ UNCHANGED <<df_quotes, df_quotes_obj>>
       ELSE /\ df_fins_extracted' = ToDatetime(df_fins_extracted, "DisclosedDate")
            /\ df_quotes' = ToDatetime(df_quotes, "Date")
            /\ df_quotes_obj' = ToDatetime(df_quotes, "Date")
            /\ mpc' = "sort_fins"
    /\ UNCHANGED <<df_merged, procVars, codeVars, calcVars, m_code>>

\* line 326
Merge_sort_fins ==
    /\ mpc = "sort_fins"
    /\ df_fins_extracted' \in SortValues(df_fins_extracted, "DisclosedDate")
    /\ mpc' = "sort_quotes"
    /\ UNCHANGED <<df_quotes, df_quotes_obj, df_merged, procVars, codeVars, calcVars, m_code>>

\* line 329: the local name is rebound to a sorted copy
Merge_sort_quotes ==
    /\ mpc = "sort_quotes"
    /\ df_quotes' \in SortValues(df_quotes, "Date")
    /\ mpc' = "merge_asof"
    /\ UNCHANGED <<df_fins_extracted, df_quotes_obj, df_merged, procVars, codeVars, calcVars,
                   m_code>>

\* lines 333-339
Merge_merge_asof ==
    /\ mpc = "merge_asof"
    /\ IF MergeAsofRaises(df_quotes, df_fins_extracted)
       THEN mpc' = "raised" /\ UNCHANGED df_merged
       ELSE df_merged' = MergeAsof(df_quotes, df_fins_extracted) /\ mpc' = "ffill"
    /\ UNCHANGED <<df_fins_extracted, df_quotes, df_quotes_obj, procVars, codeVars, calcVars,
                   m_code>>

\* line 342
Merge_ffill ==
    /\ mpc = "ffill"
    /\ df_merged' = Ffill(df_merged)
    /\ mpc' = "bfill"
    /\ UNCHANGED <<df_fins_extracted, df_quotes, df_quotes_obj, procVars, codeVars, calcVars,
                   m_code>>

\* lines 344-346
Merge_bfill ==
    /\ mpc = "bfill"
    /\ df_merged' = Bfill(df_merged)
    /\ mpc' = "returned"
    /\ UNCHANGED <<df_fins_extracted, df_quotes, df_quotes_obj, procVars, codeVars, calcVars,
                   m_code>>

MergeNext ==
    \/ Merge_extract
    \/ Merge_to_datetime
    \/ Merge_sort_fins
    \/ Merge_sort_quotes
    \/ Merge_merge_asof
    \/ Merge_ffill
    \/ Merge_bfill

\* no calculation in progress
CalcIdle ==
    /\ df = EmptyFrame
    /\ df_obj = EmptyFrame
    /\ cpc = "idle"

MergeInit ==
    /\ fs = <<>>
    /\ df_fins \in {<<t>> : t \in FinsFrames}
    /\ code_name_dict = <<>>
    /\ target_date = 1
    /\ analysis_cache = <<>>
    /\ pc = "loop"
    /\ codes = <<1>>
    /\ idx = 1
    /\ results = <<>>
    /\ failed = <<>>
    /\ calls = 1
    /\ CalcIdle
    /\ m_code = 1
    /\ df_quotes_obj \in QuoteFrames
    /\ df_quotes = df_quotes_obj
    /\ df_fins_extracted = EmptyFrame
    /\ df_merged = EmptyFrame
    /\ mpc = "extract"
    /\ CodeIdle

MergeSpec == MergeInit /\ [][MergeNext]_vars

(***************************************************************************)
(* Properties of the merge (checked under MergeSpec)                       *)
(***************************************************************************)
\* the requested code's rows of the shared disclosure frame
CodeDisclosures == {r \in RowsOf(df_fins[1]) : r["LocalCode"] = Num(m_code)}

\* the series was returned by the join (the code has disclosures)
Joined == mpc = "returned" /\ CodeDisclosures # {}

\* C2: on every row of the returned series whose quote date is not earlier
\* than the code's first disclosure date, the attached disclosure is one with
\* the greatest DisclosedDate <= the quote date: the row's DisclosedDate is
\* that date and the row carries every field that disclosure reports.
C2_JoinCorrectness ==
    Joined =>
      \A r \in RowsOf(df_merged) :
         LET upTo == {x \in CodeDisclosures : x["DisclosedDate"][1] <= r["Date"][1]}
             latest == {x \in upTo :
                          \A y \in upTo : y["DisclosedDate"][1] <= x["DisclosedDate"][1]}
         IN upTo # {} =>
              \E x \in latest :
                 /\ r["DisclosedDate"] = Num(x["DisclosedDate"][1])
                 /\ r["LocalCode"] = x["LocalCode"]
                 /\ \A c \in FinsValueColumns : ~IsNaN(x[c]) => r[c] = x[c]

\* C2 witness: quotes given as days 3, 1 and disclosures of days 1 and 2: the
\* day-1 row carries the day-1 disclosure and the day-3 row the day-2 one.
C2_Witness ==
    /\ mpc = "returned"
    /\ Len(df_quotes_obj.rows) = 2
    /\ df_quotes_obj.rows[1]["Date"] = Num(3)
    /\ Cardinality(CodeDisclosures) = 2
    /\ Len(df_merged.rows) = 2
    /\ df_merged.rows[1]["Date"] = Num(1)
    /\ df_merged.rows[1]["DisclosedDate"] = Num(1)
    /\ df_merged.rows[1]["ForecastProfit"] = Num(10)
    /\ df_merged.rows[2]["Date"] = Num(3)
    /\ df_merged.rows[2]["DisclosedDate"] = Num(2)
    /\ df_merged.rows[2]["ForecastProfit"] = Num(20)

\* a row carries nothing of a disclosure dated after its quote date: the
\* disclosure date, the forecast profit (10 * day of its disclosure) and the
\* share count (the day of its disclosure) are missing or not later
NoLookahead(r) ==
    /\ IsNaN(r["DisclosedDate"]) \/ r["DisclosedDate"][1] <= r["Date"][1]
    /\ IsNaN(r["ForecastProfit"]) \/ r["ForecastProfit"][1] <= 10 * r["Date"][1]
    /\ IsNaN(r["AverageNumberOfShares"])
         \/ r["AverageNumberOfShares"][1] <= r["Date"][1]

C3_BackfillOnlyFillsMissing ==
    mpc = "bfill" =>
      \A i \in 1..Len(df_merged.rows) : \A c \in df_merged.cols :
         ~IsNaN(df_merged.rows[i][c]) => df_merged'.rows[i][c] = df_merged.rows[i][c]

MaxCodeId == 3

MaxDates == 2

MaxCodes == 3

MaxCalls == 2

Codes == 1..MaxCodeId

AnalysisDates == 1..MaxDates

Absent == <<>>

QUOTES_COLUMNS_TO_EXTRACT ==
    {"Date", "Code", "Open", "High", "Low", "Close", "Volume", "TurnoverValue",
     "AdjustmentFactor", "AdjustmentOpen", "AdjustmentHigh", "AdjustmentLow",
     "AdjustmentClose", "AdjustmentVolume"}

QUOTES_COLUMNS_TO_NUMERIC == QUOTES_COLUMNS_TO_EXTRACT \ {"Date", "Code"}

FINS_COLUMNS_TO_EXTRACT ==
    {"DisclosedDate", "LocalCode", "TypeOfDocument", "NetSales",
     "OperatingProfit", "OrdinaryProfit", "Profit", "EarningsPerShare",
     "ForecastNetSales", "ForecastOperatingProfit", "ForecastOrdinaryProfit",
     "ForecastProfit", "ForecastEarningsPerShare", "NextYearForecastNetSales",
     "NextYearForecastOperatingProfit", "NextYearForecastOrdinaryProfit",
     "NextYearForecastProfit", "NextYearForecastEarningsPerShare",
     "TotalAssets", "Equity", "EquityToAssetRatio", "BookValuePerShare",
     "NumberOfIssuedAndOutstandingSharesAtTheEndOfFiscalYearIncludingTreasuryStock",
     "AverageNumberOfShares"}

FINS_COLUMNS_TO_NUMERIC ==
    FINS_COLUMNS_TO_EXTRACT \ {"DisclosedDate", "LocalCode", "TypeOfDocument"}

\* df[columns] = df[columns].apply(pd.to_numeric, errors="coerce"): in the
\* listed columns the frame has, a cell that is no number becomes NaN
convert_numeric_columns(f, columns) ==
    [cols |-> f.cols,
     rows |-> [i \in 1..Len(f.rows) |->
                 [c \in f.cols |->
                    IF c \in columns /\ IsText(f.rows[i][c]) THEN NaN
                    ELSE f.rows[i][c]]]]

\* from_csv: read_csv raises when the file does not exist, validate_columns
\* raises ValueError when a required column is missing
FromCsv(file, required, numeric) ==
    IF file = Absent THEN [ok |-> FALSE, df |-> EmptyFrame]
    ELSE IF ~(required \subseteq file[1].cols) THEN [ok |-> FALSE, df |-> EmptyFrame]
    ELSE [ok |-> TRUE, df |-> convert_numeric_columns(file[1], numeric)]

RawQuotesData_from_csv(file) ==
    FromCsv(file, QUOTES_COLUMNS_TO_EXTRACT, QUOTES_COLUMNS_TO_NUMERIC)

RawFinancialData_from_csv(file) ==
    FromCsv(file, FINS_COLUMNS_TO_EXTRACT, FINS_COLUMNS_TO_NUMERIC)

\* mutant of _load_stock_quotes: every code of a batch is given the quotes of
\* the batch's first code
_load_stock_quotes_OfFirst(code) ==
    RawQuotesData_from_csv(fs.quotes[target_date][codes[1]])

\* _load_stock_quotes(code): the quotes file of the code under target_date
_load_stock_quotes(code) == RawQuotesData_from_csv(fs.quotes[target_date][code])

\* pd.read_csv(listed_path) and the two column lookups raise when the file
\* or one of the columns is missing
ListedRaises(file) ==
    \/ file = Absent
    \/ ~({"Code", "CompanyName"} \subseteq file[1].cols)

\* dict(zip(df_listed["Code"], df_listed["CompanyName"])): a later row of a
\* code replaces an earlier one
_make_code_company_name_dict(date) ==
    LET rows == fs.listed[date][1].rows
        RowsOfCode(k) == {i \in 1..Len(rows) : rows[i]["Code"] = Num(k)}
        LastRow(k) == CHOOSE i \in RowsOfCode(k) : \A j \in RowsOfCode(k) : j <= i
    IN [k \in {rows[i]["Code"][1] : i \in 1..Len(rows)} |->
          rows[LastRow(k)]["CompanyName"][1]]

\* load_fins_data(date): target_date is assigned first, then df_fins, then
\* code_name_dict; a statement that raises leaves the later ones undone
load_fins_data(date) ==
    LET r == RawFinancialData_from_csv(fs.fins[date])
    IN IF ~r.ok
       THEN [ok |-> FALSE, target_date |-> date, df_fins |-> df_fins,
             code_name_dict |-> code_name_dict]
       ELSE IF ListedRaises(fs.listed[date])
       THEN [ok |-> FALSE, target_date |-> date, df_fins |-> <<r.df>>,
             code_name_dict |-> code_name_dict]
       ELSE [ok |-> TRUE, target_date |-> date, df_fins |-> <<r.df>>,
             code_name_dict |-> _make_code_company_name_dict(date)]

\* self.code_name_dict.get(code, code)
CompanyName(code) ==
    IF code \in DOMAIN code_name_dict THEN code_name_dict[code] ELSE code

\* the StockMetrics built from the merged frame m: df_merged and
\* df_calculated are the frame object the calculator wrote its columns to
\* (up to the drop of TempValue), df_result is the frame it returned
StockMetrics(code, m) ==
    LET df_calculated == calculate_all_indicators(m)
        df_written == TheoreticalInPlace(df_calculated)
    IN [code |-> code,
        company_name |-> CompanyName(code),
        df_merged |-> df_written,
        df_calculated |-> df_written,
        df_result |-> calculate_theoretical_price(df_calculated),
        analysis_date |-> target_date]

\* the value None, and a returned StockMetrics, as a list of at most one
None == <<>>

\* mutant of _analyze_single_stock: a code whose quotes cannot be loaded
\* still yields a StockMetrics, of empty frames
_analyze_single_stock_Partial(code) ==
    LET q == _load_stock_quotes(code)
    IN IF ~q.ok
       THEN {<<[code |-> code, company_name |-> CompanyName(code),
                df_merged |-> EmptyFrame, df_calculated |-> EmptyFrame,
                df_result |-> EmptyFrame, analysis_date |-> target_date]>>}
       ELSE {IF ~m.ok \/ IndicatorsRaise(m.df) THEN None
             ELSE <<StockMetrics(code, m.df)>> :
                m \in _merge_fins_and_stock(df_fins[1], code, q.df)}

\* mutant of _analyze_single_stock: when the calculator raises, a StockMetrics
\* with the merged series alone is returned
_analyze_single_stock_MergedOnly(code) ==
    LET q == _load_stock_quotes(code)
    IN IF ~q.ok THEN {None}
       ELSE {IF ~m.ok THEN None
             ELSE IF IndicatorsRaise(m.df)
             THEN <<[code |-> code, company_name |-> CompanyName(code),
                     df_merged |-> m.df, df_calculated |-> EmptyFrame,
                     df_result |-> EmptyFrame, analysis_date |-> target_date]>>
             ELSE <<StockMetrics(code, m.df)>> :
                m \in _merge_fins_and_stock(df_fins[1], code, q.df)}

\* mutant of _analyze_single_stock: a code that has a cache entry is answered
\* from the cache
_analyze_single_stock_FromCache(code) ==
    IF code \in DOMAIN analysis_cache THEN {<<analysis_cache[code]>>}
    ELSE LET q == _load_stock_quotes(code)
         IN IF ~q.ok THEN {None}
            ELSE {IF ~m.ok \/ IndicatorsRaise(m.df) THEN None
                  ELSE <<StockMetrics(code, m.df)>> :
                     m \in _merge_fins_and_stock(df_fins[1], code, q.df)}

\* _analyze_single_stock(code): the values the call can return; every
\* exception of the load, the merge and the calculator is caught
_analyze_single_stock(code) ==
    LET q == _load_stock_quotes(code)
    IN IF ~q.ok THEN {None}
       ELSE {IF ~m.ok \/ IndicatorsRaise(m.df) THEN None
             ELSE <<StockMetrics(code, m.df)>> :
                m \in _merge_fins_and_stock(df_fins[1], code, q.df)}

\* mutant of AppendResult: the new StockMetrics is put in front
PrependResult(rs, stock_metrics) == stock_metrics \o rs

\* if stock_metrics is not None: results.append(stock_metrics)
AppendResult(rs, stock_metrics) == rs \o stock_metrics

\* mutant of CachePut: the cache keeps the newest entry only
CachePutOnly(cache, code, sm) == [c \in {code} |-> sm]

\* self.analysis_cache[code] = stock_metrics
CachePut(cache, code, sm) ==
    [c \in (DOMAIN cache) \cup {code} |-> IF c = code THEN sm ELSE cache[c]]

(***************************************************************************)
(* The files of the model                                                  *)
(***************************************************************************)
\* one line of a quotes file; the columns the calculator does not read hold 1
QuotesCsvRow(day, code, close, vol) ==
    [c \in QUOTES_COLUMNS_TO_EXTRACT |->
        IF c = "Date" THEN day
        ELSE IF c = "Code" THEN Num(code)
        ELSE IF c = "AdjustmentClose" THEN close
        ELSE IF c = "Volume" THEN vol
        ELSE Num(1)]

\* one line of the disclosure file
FinsCsvRow(day, code, fp, eq, ta, ear, sh) ==
    [c \in FINS_COLUMNS_TO_EXTRACT |->
        IF c = "DisclosedDate" THEN day
        ELSE IF c = "LocalCode" THEN Num(code)
        ELSE IF c = "TypeOfDocument" THEN <<1, -1>>
        ELSE IF c = "ForecastProfit" THEN fp
        ELSE IF c = "Equity" THEN eq
        ELSE IF c = "TotalAssets" THEN ta
        ELSE IF c = "EquityToAssetRatio" THEN ear
        ELSE IF c = "AverageNumberOfShares" THEN sh
        ELSE Num(1)]

QuoteKinds == {"good", "absent", "empty", "nocolumn", "nodate"}

\* the quotes file of a code on an analysis date: two trading days, the
\* later one first, the volume of the earlier one not a number
QuotesFile(kind, code, date) ==
    LET early == QuotesCsvRow(DateText(1), code, Num(40 + code), <<0, -1>>)
        late == QuotesCsvRow(DateText(2), code, Num(40 + 10 * date + code), Num(10))
        undated == QuotesCsvRow(NaN, code, Num(45), Num(10))
    IN IF kind = "absent" THEN Absent
       ELSE IF kind = "empty"
       THEN <<[cols |-> QUOTES_COLUMNS_TO_EXTRACT, rows |-> <<>>]>>
       ELSE IF kind = "nocolumn"
       THEN <<DropColumn([cols |-> QUOTES_COLUMNS_TO_EXTRACT, rows |-> <<late, early>>],
                         "AdjustmentClose")>>
       ELSE IF kind = "nodate"
       THEN <<[cols |-> QUOTES_COLUMNS_TO_EXTRACT, rows |-> <<late, undated>>]>>
       ELSE <<[cols |-> QUOTES_COLUMNS_TO_EXTRACT, rows |-> <<late, early>>]>>

FinsKinds == {"all", "no3", "absent", "nocolumn", "baddate"}

\* the disclosure file of an analysis date: one disclosure per code on day 1
\* and a second one of code 1 on day 2
FinsFile(kind, date) ==
    LET D(day, code) ==
            FinsCsvRow(day, code, Num(10 * date + code), Num(100 * code), Num(200),
                       Frac(code, 4), Num(code))
        all == <<D(DateText(2), 1), D(DateText(1), 1), D(DateText(1), 2),
                 D(DateText(1), 3)>>
    IN IF kind = "absent" THEN Absent
       ELSE IF kind = "nocolumn"
       THEN <<DropColumn([cols |-> FINS_COLUMNS_TO_EXTRACT, rows |-> all], "Equity")>>
       ELSE IF kind = "no3"
       THEN <<[cols |-> FINS_COLUMNS_TO_EXTRACT, rows |-> SubSeq(all, 1, 3)]>>
       ELSE IF kind = "baddate"
       THEN <<[cols |-> FINS_COLUMNS_TO_EXTRACT,
               rows |-> <<D(DateText(1), 1), D(DateText(0), 2), D(DateText(1), 3)>>]>>
       ELSE <<[cols |-> FINS_COLUMNS_TO_EXTRACT, rows |-> all]>>

ListedKinds == {"good", "absent"}

\* listed_info.csv: the names of codes 1 and 2 (code 3 is not listed)
ListedFile(kind, date) ==
    IF kind = "absent" THEN Absent
    ELSE <<[cols |-> {"Code", "CompanyName"},
            rows |-> <<[Code |-> Num(1), CompanyName |-> Num(100 * date + 1)],
                       [Code |-> Num(2), CompanyName |-> Num(100 * date + 2)]>>]>>

\* a directory: on the first date the quotes file of code 2 is of kind k2,
\* on the last date the disclosure file is of kind fk and the listed file of
\* kind lk; every other file is good
Directory(k2, fk, lk) ==
    [fins |-> [d \in AnalysisDates |->
                 FinsFile(IF d = MaxDates THEN fk ELSE "all", d)],
     listed |-> [d \in AnalysisDates |->
                   ListedFile(IF d = MaxDates THEN lk ELSE "good", d)],
     quotes |-> [d \in AnalysisDates |->
                   [c \in Codes |->
                      QuotesFile(IF d = 1 /\ c = 2 THEN k2 ELSE "good", c, d)]]]

Directories ==
    {Directory(k2, "all", "good") : k2 \in QuoteKinds}
    \cup {Directory("absent", fk, lk) : fk \in FinsKinds, lk \in ListedKinds}

(***************************************************************************)
(* process_quotes, one call after another on one processor                 *)
(***************************************************************************)
\* lines 210-215: the call loads the disclosures of the date and enters the
\* loop, or load_fins_data raises out of the call
ProcessQuotes ==
    /\ pc \in {"idle", "returned", "raised"}
    /\ calls < MaxCalls
    /\ \E date \in AnalysisDates :
          LET loaded == load_fins_data(date)
          IN /\ target_date' = loaded.target_date
             /\ df_fins' = loaded.df_fins
             /\ code_name_dict' = loaded.code_name_dict
             /\ pc' = IF loaded.ok THEN "loop" ELSE "raised"
             /\ idx' = IF loaded.ok THEN 1 ELSE 0
    /\ codes' \in SeqsUpTo(Codes, MaxCodes)
    /\ results' = <<>>
    /\ failed' = <<>>
    /\ calls' = calls + 1
    /\ UNCHANGED <<fs, analysis_cache, calcVars, mergeVars, codeVars>>

\* lines 216-219: one iteration of the loop
AnalyzeSingleStock ==
    /\ pc = "loop"
    /\ idx <= Len(codes)
    /\ \E stock_metrics \in _analyze_single_stock(codes[idx]) :
          /\ results' = AppendResult(results, stock_metrics)
          /\ failed' = IF stock_metrics = None THEN Append(failed, codes[idx])
                       ELSE failed
          /\ analysis_cache' =
               IF stock_metrics = None THEN analysis_cache
               ELSE CachePut(analysis_cache, codes[idx], stock_metrics[1])
    /\ idx' = idx + 1
    /\ UNCHANGED <<fs, df_fins, code_name_dict, target_date, pc, codes, calls,
                   calcVars, mergeVars, codeVars>>

\* lines 221-222
Return ==
    /\ pc = "loop"
    /\ idx > Len(codes)
    /\ pc' = "returned"
    /\ UNCHANGED <<fs, df_fins, code_name_dict, target_date, analysis_cache,
                   codes, idx, results, failed, calls, calcVars, mergeVars, codeVars>>

Init ==
    /\ fs \in Directories
    /\ Constructed
    /\ CalcIdle
    /\ MergeIdle
    /\ CodeIdle

Next ==
    \/ ProcessQuotes
    \/ AnalyzeSingleStock
    \/ Return

Spec == Init /\ [][Next]_vars

(***************************************************************************)
(* Properties of the batch loop (checked under Spec)                       *)
(***************************************************************************)
\* the quotes file of code c under date d exists, has the required columns
\* and at least one line, and every line has a date
QuotesUsable(d, c) ==
    /\ fs.quotes[d][c] # Absent
    /\ QUOTES_COLUMNS_TO_EXTRACT \subseteq fs.quotes[d][c][1].cols
    /\ Len(fs.quotes[d][c][1].rows) > 0
    /\ \A i \in 1..Len(fs.quotes[d][c][1].rows) :
          /\ IsText(fs.quotes[d][c][1].rows[i]["Date"])
          /\ fs.quotes[d][c][1].rows[i]["Date"] # DateText(0)

\* the disclosure file of date d has at least one line of code c, and every
\* line of code c has a date
DisclosuresUsable(d, c) ==
    /\ \E i \in 1..Len(fs.fins[d][1].rows) : fs.fins[d][1].rows[i]["LocalCode"] = Num(c)
    /\ \A i \in 1..Len(fs.fins[d][1].rows) :
          fs.fins[d][1].rows[i]["LocalCode"] = Num(c)
             => /\ IsText(fs.fins[d][1].rows[i]["DisclosedDate"])
                /\ fs.fins[d][1].rows[i]["DisclosedDate"] # DateText(0)

\* the disclosure file and the listed file of date d can be loaded
DateLoadable(d) ==
    /\ fs.fins[d] # Absent
    /\ FINS_COLUMNS_TO_EXTRACT \subseteq fs.fins[d][1].cols
    /\ fs.listed[d] # Absent

ResultCodes == [i \in 1..Len(results) |-> results[i].code]

\* C1: batch isolation.  Once the disclosures of the date are loaded the call
\* never raises: whatever codes fail (quotes file missing, empty or without
\* a required column or a date, no usable disclosure), the codes analysed so
\* far are split into one StockMetrics per code that did not fail, in the
\* results, and one logged failure per code that did.  The only exception
\* that leaves process_quotes is that of load_fins_data, before any code is
\* analysed.
C1_BatchIsolation ==
    /\ pc \in {"loop", "returned"} =>
          /\ DateLoadable(target_date)
          /\ LET NotFailed(c) == QuotesUsable(target_date, c)
                                 /\ DisclosuresUsable(target_date, c)
                 Failed(c) == ~NotFailed(c)
             IN /\ ResultCodes = SelectSeq(SubSeq(codes, 1, idx - 1), NotFailed)
                /\ failed = SelectSeq(SubSeq(codes, 1, idx - 1), Failed)
          /\ pc = "returned" => idx = Len(codes) + 1
    /\ pc = "raised" =>
          /\ ~DateLoadable(target_date)
          /\ idx = 0 /\ results = <<>> /\ failed = <<>>

\* three codes, the second without a quotes file: two StockMetrics, for
\* codes 1 and 3, and one logged failure
C1_Witness ==
    /\ pc = "returned"
    /\ codes = <<1, 2, 3>>
    /\ fs.quotes[target_date][1] # Absent
    /\ fs.quotes[target_date][2] = Absent
    /\ fs.quotes[target_date][3] # Absent
    /\ Len(results) = 2
    /\ ResultCodes = <<1, 3>>
    /\ failed = <<2>>

(***************************************************************************)
(* Properties of the moving averages (checked under CalcSpec)              *)
(***************************************************************************)
\* the mean of column col over the n rows ending at row i, all defined
RECURSIVE SumUp(_, _, _, _)
SumUp(f, col, from, to) ==
    IF from > to THEN Num(0)
    ELSE IF from = to THEN f.rows[from][col]
    ELSE LET mid == from + (to - from) \div 3
         IN FAdd(SumUp(f, col, from, mid), SumUp(f, col, mid + 1, to))

MeanOfLast(f, col, i, n) == FDiv(SumUp(f, col, i - n + 1, i), Num(n))

AllDefined(f, col, from, to) == \A k \in from..to : ~IsNaN(f.rows[k][col])

Min(a, b) == IF a <= b THEN a ELSE b

\* C11 (as claimed): Smoothed_volume has minimum-periods 1: on a series whose
\* Volume values are all defined, every row holds the mean of Volume over the
\* last min(i, 20) rows up to it (i counted from 1), the first 19 included.
C11_SmoothedVolumeMinPeriods1 ==
    ("Smoothed_volume" \in df.cols /\ AllDefined(df, "Volume", 1, Len(df.rows))) =>
       \A i \in 1..Len(df.rows) :
          /\ ~IsNaN(df.rows[i]["Smoothed_volume"])
          /\ df.rows[i]["Smoothed_volume"] = MeanOfLast(df, "Volume", i, Min(i, 20))

\* C12: SMA_200 is missing on each of the first 199 rows, and on every later
\* row whose last 200 AdjustmentClose values are all defined it is their mean;
\* no later step of the calculator fills or changes it.
C12_SMA200 ==
    "SMA_200" \in df.cols =>
       \A i \in 1..Len(df.rows) :
          /\ i <= 199 => IsNaN(df.rows[i]["SMA_200"])
          /\ (i >= 200 /\ AllDefined(df, "AdjustmentClose", i - 199, i)) =>
                df.rows[i]["SMA_200"] = MeanOfLast(df, "AdjustmentClose", i, 200)

\* a series of 201 rows without a missing close: row 199 has no average, rows
\* 200 and 201 have one
C12_Witness ==
    /\ cpc = "done"
    /\ Len(df.rows) = 201
    /\ AllDefined(df, "AdjustmentClose", 1, 201)
    /\ IsNaN(df.rows[199]["SMA_200"])
    /\ ~IsNaN(df.rows[200]["SMA_200"])
    /\ df.rows[201]["SMA_200"] = MeanOfLast(df, "AdjustmentClose", 201, 200)

(***************************************************************************)
(* Zero and missing denominators (checked under CalcSpec)                  *)
(***************************************************************************)
ZeroOrMissing(x) == IsNaN(x) \/ x = Num(0)

\* C13 (as claimed): on a non-empty merged series calculate_all_indicators
\* does not raise, and on every row an indicator whose denominator is zero or
\* missing is the missing marker: AdjustmentBPS (latest share count), PER
\* (latest share count, ForecastProfit / latest share count), PBR (latest
\* share count, Equity / latest share count), ROE (Equity), ROA (TotalAssets).
C13_ZeroDenominatorIsMissing ==
    /\ (Len(df_obj.rows) > 0 /\ MergedColumns \subseteq df_obj.cols) => cpc # "raised"
    /\ "MarketCap" \in df.cols =>
         LET latest == df.rows[Len(df.rows)]["AverageNumberOfShares"] IN
         \A r \in RowsOf(df) :
            /\ ZeroOrMissing(latest) => IsNaN(r["AdjustmentBPS"])
            /\ (ZeroOrMissing(latest) \/ ZeroOrMissing(FDiv(r["ForecastProfit"], latest)))
                   => IsNaN(r["PER"])
            /\ (ZeroOrMissing(latest) \/ ZeroOrMissing(FDiv(r["Equity"], latest)))
                   => IsNaN(r["PBR"])
            /\ ZeroOrMissing(r["Equity"]) => IsNaN(r["ROE"])
            /\ ZeroOrMissing(r["TotalAssets"]) => IsNaN(r["ROA"])

(***************************************************************************)
(* Frame effects of the merge (checked under MergeSpec)                    *)
(***************************************************************************)
\* C14 (as claimed): the fill after the join propagates disclosure columns
\* only: a price or volume that is missing on a quote row is still missing on
\* the corresponding row of the returned series (row i of the sorted quotes
\* is row i of the join).
C14_PriceFieldsNeverFilled ==
    Joined =>
      \A i \in 1..Len(df_merged.rows) : \A c \in {"AdjustmentClose", "Volume"} :
         IsNaN(df_quotes.rows[i][c]) => IsNaN(df_merged.rows[i][c])

\* C15 (as claimed): _merge_fins_and_stock has no side effect on its inputs:
\* no statement of the call changes the quote frame object that was passed
\* in or the processor's disclosure frame.
C15_InputsNotMutated ==
    [][df_quotes_obj' = df_quotes_obj /\ df_fins' = df_fins]_vars

(***************************************************************************)
(* The series of a StockMetrics (checked under Spec)                       *)
(***************************************************************************)
IndicatorColumns ==
    {"AdjustmentBPS", "PER", "PBR", "ROE", "ROA", "MarketCap", "Smoothed_volume",
     "SMA_200"}

ValuationColumns ==
    {"DiscountRate", "ROA_Capped", "RiskAssessmentRate",
     "FinancialLeverageAdjustment", "AssetValue", "BusinessValue",
     "TheoreticalStockPrice", "TheoreticalStockPriceUpperLimit"}

FileColumns == QUOTES_COLUMNS_TO_EXTRACT \cup FINS_COLUMNS_TO_EXTRACT

\* C16 (as claimed): in every returned StockMetrics df_merged holds the quote
\* and disclosure columns only, df_calculated these and the indicator columns
\* but no valuation column, and df_result these and the valuation columns.
C16_ProgressivelyAugmented ==
    \A i \in 1..Len(results) :
       /\ results[i].df_merged.cols = FileColumns
       /\ results[i].df_calculated.cols = FileColumns \cup IndicatorColumns
       /\ results[i].df_result.cols =
             FileColumns \cup IndicatorColumns \cup ValuationColumns

(***************************************************************************)
(* Order and completeness of the results (checked under Spec)              *)
(***************************************************************************)
\* the codes the loop has gone through in the current call
Processed == SubSeq(codes, 1, idx - 1)

\* C17: the results are in request order: the codes of the results are the
\* requested codes gone through so far with the failed ones deleted, each
\* entry is a StockMetrics of the call's date (there is no placeholder for a
\* failure), and a code requested k times that succeeds appears k times.
C17_RequestOrder ==
    pc \in {"loop", "returned"} =>
       LET Succeeded(c) == \A j \in 1..Len(failed) : failed[j] # c
       IN /\ ResultCodes = SelectSeq(Processed, Succeeded)
          /\ Len(results) + Len(failed) = Len(Processed)
          /\ \A i \in 1..Len(results) :
                /\ results[i].code \in Codes
                /\ results[i].analysis_date = target_date
          /\ \A c \in Codes :
                Succeeded(c) =>
                   Cardinality({i \in 1..Len(results) : results[i].code = c})
                      = Cardinality({i \in 1..Len(Processed) : Processed[i] = c})

\* code 3 requested twice around the failing code 2: two results, both for
\* code 3
C17_Witness ==
    /\ pc = "returned"
    /\ codes = <<3, 2, 3>>
    /\ failed = <<2>>
    /\ ResultCodes = <<3, 3>>

\* the analysis of code c under the current date fails at some stage: the
\* quotes cannot be loaded, the merge raises or the calculator raises
AnalysisFails(c) ==
    ~(QuotesUsable(target_date, c) /\ DisclosuresUsable(target_date, c))

\* C18: no partial result: an iteration of the loop on a code whose analysis
\* fails adds nothing to the results and leaves analysis_cache exactly as it
\* was; the failure is logged.
C18_NoPartialResult ==
    [][(pc = "loop" /\ idx' = idx + 1 /\ AnalysisFails(codes[idx])) =>
          /\ results' = results
          /\ analysis_cache' = analysis_cache
          /\ failed' = Append(failed, codes[idx])]_vars

\* code 2 was analysed on the last date by the first call; the second call,
\* on the first date, fails on it and the cache still holds the first result
C18_Witness ==
    /\ calls = 2
    /\ pc = "returned"
    /\ target_date = 1
    /\ codes = <<2>>
    /\ failed = <<2>>
    /\ results = <<>>
    /\ 2 \in DOMAIN analysis_cache
    /\ analysis_cache[2].analysis_date = MaxDates

(***************************************************************************)
(* Failure modes of the merge (checked under MergeSpec)                    *)
(***************************************************************************)
\* C19 (as claimed): the merge raises, and never returns a series, when the
\* disclosure frame has no row of the requested code or the quote frame has
\* no rows.
C19_EmptySeriesRaises ==
    mpc = "returned" => (CodeDisclosures # {} /\ Len(df_quotes_obj.rows) > 0)

\* C20 (as claimed): the merge raises on a security-code mismatch: it returns
\* a series only when every row of the quote frame has the requested code as
\* its Code.
C20_CodeMismatchRaises ==
    mpc = "returned" =>
       \A r \in RowsOf(df_quotes_obj) : r["Code"] = Num(m_code)

(***************************************************************************)
(* Independence of the codes of a batch (checked under Spec)               *)
(***************************************************************************)
\* what process_quotes([c], d) on a new processor returns for code c, from
\* the files alone: the set of StockMetrics it can return (empty: c fails)
SingleBatch(c, d) ==
    LET fins == RawFinancialData_from_csv(fs.fins[d])
        quotes == RawQuotesData_from_csv(fs.quotes[d][c])
        names == _make_code_company_name_dict(d)
        Metrics(m) ==
            LET calculated == calculate_all_indicators(m)
            IN [code |-> c,
                company_name |-> IF c \in DOMAIN names THEN names[c] ELSE c,
                df_merged |-> TheoreticalInPlace(calculated),
                df_calculated |-> TheoreticalInPlace(calculated),
                df_result |-> calculate_theoretical_price(calculated),
                analysis_date |-> d]
    IN IF ~fins.ok \/ ListedRaises(fs.listed[d]) \/ ~quotes.ok THEN {}
       ELSE {Metrics(m.df) : m \in {x \in _merge_fins_and_stock(fins.df, c, quotes.df) :
                                       x.ok /\ ~IndicatorsRaise(x.df)}}

C21_ResultsAreSingleBatch ==
    pc \in {"loop", "returned"} =>
       \A i \in 1..Len(results) : results[i] \in SingleBatch(results[i].code, target_date)

C21_DisclosuresUnchanged == pc = "loop" => df_fins' = df_fins

\* C21: per-security independence: every StockMetrics of a batch is the one
\* a batch of that code alone computes for the date, whatever other codes the
\* batch holds, in whatever order, failing or not; and an iteration of the
\* loop leaves the shared disclosure frame unchanged.
C21_Independence ==
    [](C21_ResultsAreSingleBatch) /\ [][C21_DisclosuresUnchanged]_vars

\* code 1 analysed after the failing code 2 and after code 3
C21_Witness ==
    /\ pc = "returned"
    /\ codes = <<2, 3, 1>>
    /\ failed = <<2>>
    /\ Len(results) = 2
    /\ results[2].code = 1
    /\ results[2] \in SingleBatch(1, target_date)

(***************************************************************************)
(* The worked example of the valuation tiers (checked under CalcSpec)      *)
(***************************************************************************)
\* C22 as stated: EquityToAssetRatio = 0.75 gives DiscountRate = 0.75 and
\* PBR = 0.45 gives a missing RiskAssessmentRate.
C22_ExampleAsStated ==
    cpc = "done" =>
       \A r \in RowsOf(df) :
          /\ r["EquityToAssetRatio"] = Frac(75, 100) => r["DiscountRate"] = Frac(75, 100)
          /\ r["PBR"] = Frac(45, 100) => IsNaN(r["RiskAssessmentRate"])

\* C22: worked example: a row with EquityToAssetRatio = 0.75 gets
\* DiscountRate = 0.75, and a row with PBR = 0.45 lies in the tier
\* [0.41, 0.49), not in a gap, and gets RiskAssessmentRate = 0.80.
C22_WorkedExample ==
    cpc = "done" =>
       \A r \in RowsOf(df) :
          /\ r["EquityToAssetRatio"] = Frac(75, 100) => r["DiscountRate"] = Frac(75, 100)
          /\ r["PBR"] = Frac(45, 100) => r["RiskAssessmentRate"] = Frac(80, 100)

\* one row holds both inputs of the example
C22_Witness ==
    /\ cpc = "done"
    /\ \E r \in RowsOf(df) :
          /\ r["EquityToAssetRatio"] = Frac(75, 100)
          /\ r["DiscountRate"] = Frac(75, 100)
          /\ r["PBR"] = Frac(45, 100)
          /\ r["RiskAssessmentRate"] = Frac(80, 100)

(***************************************************************************)
(* The security-code conversions, called one after another: each call      *)
(* after the first is given what the call before it returned               *)
(***************************************************************************)
MaxCodeLen == 6
MaxCodeCalls == 2

\* every string of at most MaxCodeLen characters
CodeStrings == UNION {[1..n -> Alphabet] : n \in 0..MaxCodeLen}

\* the argument of the next call
NextArg == IF code_trace = <<>> THEN input_code ELSE code_result.code

CanCall ==
    /\ Len(code_trace) < MaxCodeCalls
    /\ code_trace = <<>> \/ code_result.ok

Call_normalize_stock_code ==
    /\ CanCall
    /\ code_arg' = NextArg
    /\ code_result' = normalize_stock_code(NextArg)
    /\ code_trace' = Append(code_trace, "normalize_stock_code")
    /\ UNCHANGED <<input_code, procVars, calcVars, mergeVars>>

Call_to_api_stock_code ==
    /\ CanCall
    /\ code_arg' = NextArg
    /\ code_result' = to_api_stock_code(NextArg)
    /\ code_trace' = Append(code_trace, "to_api_stock_code")
    /\ UNCHANGED <<input_code, procVars, calcVars, mergeVars>>

CodeNext ==
    \/ Call_normalize_stock_code
    \/ Call_to_api_stock_code

CodeInit ==
    /\ input_code \in CodeStrings
    /\ code_arg = <<>>
    /\ code_result = Raised
    /\ code_trace = <<>>
    /\ fs = <<>>
    /\ Constructed
    /\ CalcIdle
    /\ MergeIdle

CodeSpec == CodeInit /\ [][CodeNext]_vars

(***************************************************************************)
(* Properties of the code conversions (checked under CodeSpec)             *)
(***************************************************************************)
LastCall == code_trace[Len(code_trace)]

\* s has no white space at either end
IsStripped(s) == s = <<>> \/ (s[1] # " " /\ s[Len(s)] # " ")

\* the stripped, upper-cased forms of s: each part s[a..b] of s that has only
\* white space before and after it and none at its own ends, with the
\* lower-case letter replaced (there is exactly one such form)
FormsOf(s) ==
    {[i \in 1..Len(t) |-> IF t[i] = "a" THEN "A" ELSE t[i]] :
       t \in {SubSeq(s, ab[1], ab[2]) :
                ab \in {x \in (1..(Len(s) + 1)) \X (0..Len(s)) :
                          /\ x[2] >= x[1] - 1
                          /\ \A i \in 1..Len(s) : (i < x[1] \/ i > x[2]) => s[i] = " "
                          /\ IsStripped(SubSeq(s, x[1], x[2]))}}}

\* C23: normalize_stock_code: when the stripped, upper-cased form of the
\* input has length 4 the result is that form followed by "0"; when it has
\* length 5 the result is that form; for any other length the call raises
\* ValueError; every returned code has length 5; normalizing a returned code
\* returns it unchanged.
C23_Normalize ==
    (code_trace # <<>> /\ LastCall = "normalize_stock_code") =>
       /\ FormsOf(code_arg) # {}
       /\ \A form \in FormsOf(code_arg) :
             /\ Len(form) = 4 => code_result = Returned(form \o <<"0">>)
             /\ Len(form) = 5 => code_result = Returned(form)
             /\ Len(form) \notin {4, 5} => code_result = Raised
       /\ code_result.ok => Len(code_result.code) = 5
       /\ code_trace = <<"normalize_stock_code", "normalize_stock_code">> =>
             code_result = Returned(code_arg)

\* a padded lower-case 4-character code, normalized twice
C23_Witness ==
    /\ code_trace = <<"normalize_stock_code", "normalize_stock_code">>
    /\ input_code = <<" ", "1", "a", "0", "1", " ">>
    /\ code_arg = <<"1", "A", "0", "1", "0">>
    /\ code_result = Returned(code_arg)

\* an upper-case code of n characters: n digits and upper-case letters
IsCode(s, n) == Len(s) = n /\ \A i \in 1..n : s[i] \in {"0", "1", "A"}

\* C24: code round trip: for an upper-case 5-character code x,
\* to_api_stock_code(x) is x without its last character when that is "0" and
\* x itself otherwise, and normalize_stock_code of it is x again; for an
\* upper-case 4-character code c, to_api_stock_code(c) is c, and
\* to_api_stock_code(normalize_stock_code(c)) is c.
C24_RoundTrip ==
    /\ (code_trace = <<"to_api_stock_code">> /\ IsCode(input_code, 5)) =>
          code_result = Returned(IF input_code[5] = "0" THEN SubSeq(input_code, 1, 4)
                                 ELSE input_code)
    /\ (code_trace = <<"to_api_stock_code">> /\ IsCode(input_code, 4)) =>
          code_result = Returned(input_code)
    /\ (code_trace = <<"to_api_stock_code", "normalize_stock_code">>
           /\ IsCode(input_code, 5)) =>
          code_result = Returned(input_code)
    /\ (code_trace = <<"normalize_stock_code">> /\ IsCode(input_code, 4)) =>
          code_result.ok
    /\ (code_trace = <<"normalize_stock_code", "to_api_stock_code">>
           /\ IsCode(input_code, 4)) =>
          code_result = Returned(input_code)

\* a 5-character code ending in "0" went to its 4-character form and back
C24_Witness ==
    /\ code_trace = <<"to_api_stock_code", "normalize_stock_code">>
    /\ input_code = <<"1", "A", "0", "1", "0">>
    /\ code_arg = <<"1", "A", "0", "1">>
    /\ code_result = Returned(input_code)

(***************************************************************************)
(* The result cache (checked under Spec)                                   *)
(***************************************************************************)
\* the step is an analysis of the code codes[idx] that returned a StockMetrics
AnalysisSucceeds == pc = "loop" /\ idx' = idx + 1 /\ Len(results') = Len(results) + 1

\* the step is an analysis of the code codes[idx] that returned None
AnalysisReturnsNone == pc = "loop" /\ idx' = idx + 1 /\ results' = results

\* a new processor has an empty cache
C25_EmptyAtConstruction == calls = 0 => analysis_cache = <<>>

\* within a call, the entry of every code analysed with success is the
\* StockMetrics returned by the latest such analysis
C25_EntryIsLatestResult ==
    pc \in {"loop", "returned"} =>
       \A i \in 1..Len(results) :
          (\A j \in (i + 1)..Len(results) : results[j].code # results[i].code) =>
             /\ results[i].code \in DOMAIN analysis_cache
             /\ analysis_cache[results[i].code] = results[i]

\* a step changes the cache only by a successful analysis, which writes the
\* returned StockMetrics under its code and nothing else
C25_CacheStep ==
    /\ DOMAIN analysis_cache \subseteq DOMAIN analysis_cache'
    /\ AnalysisSucceeds =>
          /\ DOMAIN analysis_cache' = DOMAIN analysis_cache \cup {codes[idx]}
          /\ analysis_cache'[codes[idx]] = results'[Len(results')]
          /\ \A c \in DOMAIN analysis_cache :
                c # codes[idx] => analysis_cache'[c] = analysis_cache[c]
    /\ ~AnalysisSucceeds => analysis_cache' = analysis_cache

\* C25: result cache over any sequence of process_quotes calls on one
\* processor: the cache starts empty; an entry for c appears exactly when an
\* analysis of c succeeds and is then the StockMetrics that analysis returned,
\* so the entry is that of the most recent successful analysis of c; a failed
\* analysis of c, a batch without c and every other step leave the entries
\* as they are, and no entry is ever removed.
C25_ResultCache ==
    /\ [](C25_EmptyAtConstruction /\ C25_EntryIsLatestResult)
    /\ [][C25_CacheStep]_vars

\* code 2 was analysed with success for date 2 by the first call; the second
\* call, for date 1, failed on it, and the entry of the first call is in place
C25_Witness ==
    /\ calls = 2
    /\ pc = "returned"
    /\ target_date = 1
    /\ codes = <<2>>
    /\ failed = <<2>>
    /\ 2 \in DOMAIN analysis_cache
    /\ analysis_cache[2].analysis_date = 2

\* the lists process_quotes(cs, d) returns on a processor with an empty
\* cache, from the files alone
RECURSIVE BatchFromFiles(_, _)
BatchFromFiles(cs, d) ==
    IF cs = <<>> THEN {<<>>}
    ELSE LET single == SingleBatch(Head(cs), d)
             heads == IF single = {} THEN {<<>>} ELSE {<<sm>> : sm \in single}
             tails == BatchFromFiles(Tail(cs), d)
         IN {h \o t : h \in heads, t \in tails}

\* C26: the result cache is write-only: whatever analysis_cache holds when
\* process_quotes(codes, d) is called, the list it builds and returns is the
\* one a processor with an empty cache returns for the same files; a code that
\* has a cache entry is computed from its files again.
C26_CacheIsWriteOnly ==
    pc \in {"loop", "returned"} =>
       results \in BatchFromFiles(SubSeq(codes, 1, idx - 1), target_date)

\* the second call, for date 1, ran on a cache holding the entries the first
\* call made for date 2, code 1 among them, and returned code 1 for date 1
C26_Witness ==
    /\ calls = 2
    /\ pc = "returned"
    /\ target_date = 1
    /\ codes = <<3, 1>>
    /\ Len(results) = 2
    /\ results[2].code = 1
    /\ results[2].analysis_date = 1
    /\ 2 \in DOMAIN analysis_cache
    /\ analysis_cache[2].analysis_date = 2
    /\ analysis_cache[1] = results[2]

(***************************************************************************)
(* load_fins_data (checked under Spec)                                     *)
(***************************************************************************)
\* C27: load_fins_data is all-or-nothing: a call of process_quotes that
\* load_fins_data raises out of leaves target_date, df_fins and
\* code_name_dict as they were before the call.
C27_LoadAllOrNothing ==
    [][(calls' = calls + 1 /\ pc' = "raised") =>
          /\ target_date' = target_date
          /\ df_fins' = df_fins
          /\ code_name_dict' = code_name_dict]_vars

(***************************************************************************)
(* Shape and row integrity of the merged series (checked under MergeSpec)  *)
(***************************************************************************)
\* the number of rows of f dated day d
RowsDated(f, d) == Cardinality({i \in 1..Len(f.rows) : f.rows[i]["Date"][1] = d})

\* C28: shape of the merged series: when the requested code has at least one
\* disclosure, the series _merge_fins_and_stock returns has exactly one row
\* per row of the quote frame it was given (as many rows, and as many of each
\* date), in ascending order of Date.
C28_MergedShape ==
    Joined =>
       /\ Len(df_merged.rows) = Len(df_quotes_obj.rows)
       /\ \A d \in 0..MaxDay : RowsDated(df_merged, d) = RowsDated(df_quotes_obj, d)
       /\ \A i \in 1..Len(df_merged.rows) : \A j \in i..Len(df_merged.rows) :
             df_merged.rows[i]["Date"][1] <= df_merged.rows[j]["Date"][1]

\* quotes given as days 3, 1, 1 and two different disclosures, both of day 2,
\* between the quote dates
C28_Witness ==
    /\ mpc = "returned"
    /\ Len(df_fins[1].rows) = 2
    /\ df_fins[1].rows[1] # df_fins[1].rows[2]
    /\ \A r \in RowsOf(df_fins[1]) : r["LocalCode"] = Num(1) /\ r["DisclosedDate"][1] = 2
    /\ Len(df_quotes_obj.rows) = 3
    /\ df_quotes_obj.rows[1]["Date"][1] = 3
    /\ df_quotes_obj.rows[2]["Date"][1] = 1
    /\ df_quotes_obj.rows[3]["Date"][1] = 1
    /\ Len(df_merged.rows) = 3
    /\ df_merged.rows[1]["Date"] = Num(1)
    /\ df_merged.rows[2]["Date"] = Num(1)
    /\ df_merged.rows[3]["Date"] = Num(3)

\* C29: row integrity of the merged series: on every row of the returned
\* series the disclosure fields are those of one disclosure row of the code,
\* missing values included: a field the disclosure leaves missing is missing
\* on the row, not taken from another disclosure.
C29_RowIntegrity ==
    Joined =>
       \A r \in RowsOf(df_merged) :
          \E x \in CodeDisclosures :
             /\ r["DisclosedDate"] = Num(x["DisclosedDate"][1])
             /\ r["LocalCode"] = x["LocalCode"]
             /\ \A c \in FinsValueColumns : r[c] = x[c]

(***************************************************************************)
(* The scratch column of the leverage adjustment (checked under Spec)      *)
(***************************************************************************)
\* C30: the scratch column TempValue is in none of the three series of a
\* returned StockMetrics.
C30_NoTempValue ==
    pc \in {"loop", "returned"} =>
       \A i \in 1..Len(results) :
          /\ "TempValue" \notin results[i].df_merged.cols
          /\ "TempValue" \notin results[i].df_calculated.cols
          /\ "TempValue" \notin results[i].df_result.cols

====
